---- MODULE Spec2Model ----
(***************************************************************************)
(* A model of create-rstack (src/src/index.ts, lines 1-796): the project   *)
(* scaffolder's documentation-fragment merger, tools option parser,        *)
(* package.json merger/updater, folder copier and the create orchestrator. *)
(*                                                                         *)
(* Text is modelled as a sequence of one-character strings, so that        *)
(* split, join, trim, the heading regular expression and the textual       *)
(* replacements are computed character by character as the code does.      *)
(***************************************************************************)
EXTENDS Integers, Sequences, FiniteSets, TLC

VARIABLES
    agentsFiles,    \* mergeAgentsFiles: the argument, a list of fragment texts
    allSections,    \* mergeAgentsFiles: the local allSections once the loop at 747 ended
    mergedAgents,   \* mergeAgentsFiles: the returned text
    agentsPc,       \* "idle" | "ready" | "merged"
    toolsOption,    \* getTools: argv.tools as minimist leaves it
    dirAndTemplate, \* getTools: argv.dir && argv.template
    extraTools,     \* getTools/create: the extraTools argument
    parsedTools,    \* getTools: the local parsedTools (null or a list)
    tools,          \* getTools: the returned list
    toolsPrompted,  \* getTools: multiselect was called
    toolsPc,        \* "idle" | "ready" | "resolved" | "exited"
    targetPackage,  \* the destination package.json: NoFile or File(json)
    extraPackage,   \* the overlay's package.json, a File(json)
    pkgBefore,      \* targetPackage before the latest operation
    versionArg,     \* the version argument: undefined, a string or a mapping
    nameArg,        \* updatePackageJson's name argument: undefined or a string
    pkgDirBase,     \* path.basename(path.dirname(pkgJsonPath))
    pkgOps,         \* the operations applied so far, oldest first
    disk,           \* the source folders: root, packageRoot and a tool's own folder
    distFolder,     \* the destination tree: path -> entry; no path when it is absent
    destAtStart,    \* the destination when create was called
    toolCalls,      \* the calls of external tools' actions and commands so far
    destBefore,     \* distFolder before the latest step
    copyFrom,       \* the children of the folder the latest copyFolder call read
    override,       \* argv.override
    templateName,   \* what getTemplateName returns
    packageName,    \* argv.packageName || formatted.packageName
    packageManager, \* pkgInfo ? pkgInfo.name : 'npm'
    createVersion,  \* create's version, resolved
    skipFiles,      \* create's skipFiles
    eslintMapping,  \* mapESLintTemplate: absent, or what it returns for templateName
    agentsMdSearchDirs, \* the folders searched for AGENTS.md, in order
    toolIndex,      \* the position of the tools loop
    agentsWritten,  \* create wrote the merged AGENTS.md (476)
    createLog,      \* the steps create has taken, oldest first
    createPc,       \* where create stands
    formatInput,    \* formatProjectName: the argument
    formatResult,   \* formatProjectName: the returned { packageName, targetDir }
    formatPc,       \* "idle" | "ready" | "returned"
    userAgent,      \* process.env.npm_config_user_agent
    runCommandArg,  \* runCommand: the declared command
    spawned,        \* runCommand: what spawn.sync was called with
    runPc,          \* "idle" | "ready" | "spawned"
    copySource,     \* copyFolder on its own: the children of from
    copyOptions,    \* copyFolder on its own: the options of the call
    copyResult,     \* copyFolder on its own: the folder to after the call
    copyPc          \* "idle" | "ready" | "copied"

agentsVars == <<agentsFiles, allSections, mergedAgents, agentsPc>>
toolsVars == <<toolsOption, dirAndTemplate, extraTools, parsedTools, tools,
               toolsPrompted, toolsPc>>
pkgVars == <<targetPackage, extraPackage, pkgBefore, versionArg, nameArg,
             pkgDirBase, pkgOps>>
createVars == <<destAtStart, toolCalls, disk, distFolder, destBefore, copyFrom, override, templateName,
                packageName, packageManager, createVersion, skipFiles, eslintMapping,
                agentsMdSearchDirs, toolIndex, agentsWritten, createLog, createPc>>
formatVars == <<formatInput, formatResult, formatPc>>
runVars == <<userAgent, runCommandArg, spawned, runPc>>
copyVars == <<copySource, copyOptions, copyResult, copyPc>>
utilVars == <<formatVars, runVars, copyVars>>
vars == <<agentsVars, toolsVars, pkgVars, createVars, utilVars>>

(***************************************************************************)
(* Strings                                                                 *)
(***************************************************************************)

Range(s) == {s[i] : i \in 1..Len(s)}

\* String.prototype.trim / the regular expression class \s, on the modelled alphabet.
IsWhitespace(c) == c \in {" ", "\t", "\n", "\r"}

\* What the regular expression atom "." does not match.
IsLineTerminator(c) == c \in {"\n", "\r"}

RECURSIVE TrimStart(_)
TrimStart(s) ==
    IF s = <<>> THEN s
    ELSE IF IsWhitespace(Head(s)) THEN TrimStart(Tail(s)) ELSE s

RECURSIVE TrimEnd(_)
TrimEnd(s) ==
    IF s = <<>> THEN s
    ELSE IF IsWhitespace(s[Len(s)]) THEN TrimEnd(SubSeq(s, 1, Len(s) - 1)) ELSE s

Trim(s) == TrimEnd(TrimStart(s))

\* s.split(sep) for a one-character separator: always at least one part.
RECURSIVE SplitFrom(_, _, _, _)
SplitFrom(s, sep, cur, acc) ==
    IF s = <<>> THEN Append(acc, cur)
    ELSE IF Head(s) = sep THEN SplitFrom(Tail(s), sep, <<>>, Append(acc, cur))
    ELSE SplitFrom(Tail(s), sep, Append(cur, Head(s)), acc)

Split(s, sep) == SplitFrom(s, sep, <<>>, <<>>)

\* parts.join(sep) for a one-character separator.
RECURSIVE Join(_, _)
Join(parts, sep) ==
    IF parts = <<>> THEN <<>>
    ELSE IF Len(parts) = 1 THEN parts[1]
    ELSE parts[1] \o <<sep>> \o Join(Tail(parts), sep)

UpperChars == <<"A", "B", "C", "D", "E", "F", "G", "H", "I", "J", "K", "L", "M",
                "N", "O", "P", "Q", "R", "S", "T", "U", "V", "W", "X", "Y", "Z">>
LowerChars == <<"a", "b", "c", "d", "e", "f", "g", "h", "i", "j", "k", "l", "m",
                "n", "o", "p", "q", "r", "s", "t", "u", "v", "w", "x", "y", "z">>

ToLowerChar(c) ==
    IF \E i \in 1..Len(UpperChars) : UpperChars[i] = c
    THEN LowerChars[CHOOSE i \in 1..Len(UpperChars) : UpperChars[i] = c]
    ELSE c

\* String.prototype.toLowerCase
ToLowerCase(s) == [i \in 1..Len(s) |-> ToLowerChar(s[i])]

\* '#'.repeat(n)
RepeatHash(n) == [i \in 1..n |-> "#"]

(***************************************************************************)
(* parseAgentsContent                                                      *)
(***************************************************************************)

RECURSIVE LeadingHashes(_)
LeadingHashes(line) ==
    IF line = <<>> \/ Head(line) # "#" THEN 0 ELSE 1 + LeadingHashes(Tail(line))

\* The places where \s+ can end so that (.+)$ matches what is left of the line.
HeadingSplits(rest) ==
    {i \in 1..(Len(rest) - 1) :
        /\ \A j \in 1..i : IsWhitespace(rest[j])
        /\ \A j \in (i + 1)..Len(rest) : ~IsLineTerminator(rest[j])}

\* A match that takes a heading of depth 3 for one of depth 2.
SectionMatchAnyDepth(line) ==
    LET h == LeadingHashes(line)
        rest == SubSeq(line, h + 1, Len(line))
        splits == HeadingSplits(rest)
    IN  IF h \in {1, 2, 3} /\ splits # {}
        THEN LET i == CHOOSE k \in splits : \A m \in splits : m <= k
             IN  [matched |-> TRUE, level |-> IF h = 1 THEN 1 ELSE 2,
                  title |-> Trim(SubSeq(rest, i + 1, Len(rest)))]
        ELSE [matched |-> FALSE, level |-> 0, title |-> <<>>]

\* line.match(/^(#{1,2})\s+(.+)$/): matched, the length of group 1, group 2 trimmed.
SectionMatch(line) ==
    LET h == LeadingHashes(line)
        rest == SubSeq(line, h + 1, Len(line))
        splits == HeadingSplits(rest)
    IN  IF h \in {1, 2} /\ splits # {}
        THEN LET i == CHOOSE k \in splits : \A m \in splits : m <= k
             IN  [matched |-> TRUE, level |-> h,
                  title |-> Trim(SubSeq(rest, i + 1, Len(rest)))]
        ELSE [matched |-> FALSE, level |-> 0, title |-> <<>>]

LevelDigit(level) == IF level = 1 THEN "1" ELSE "2"

\* `${currentLevel}-${currentTitle.toLowerCase()}`
SectionKey(level, title) == <<LevelDigit(level), "-">> \o ToLowerCase(title)

HasKey(sections, key) == \E i \in 1..Len(sections) : sections[i].key = key

IndexOfKey(sections, key) == CHOOSE i \in 1..Len(sections) : sections[i].key = key

\* An assignment that leaves a key that is already there as it is.
SetSectionKeepingFirst(sections, key, value) ==
    IF HasKey(sections, key) THEN sections ELSE Append(sections, value)

\* sections[key] = value on an object with string keys: a new key is appended to the
\* enumeration order, an existing key keeps its place and gets the new value.
SetSection(sections, key, value) ==
    IF HasKey(sections, key)
    THEN [sections EXCEPT ![IndexOfKey(sections, key)] = value]
    ELSE Append(sections, value)

\* The section flushed at lines 711-717 and 727-733.
FlushSection(st) ==
    IF st.currentKey # <<>>
    THEN SetSection(st.sections, st.currentKey,
                    [key |-> st.currentKey,
                     title |-> st.currentTitle,
                     level |-> st.currentLevel,
                     content |-> Trim(Join(st.currentContent, "\n"))])
    ELSE st.sections

\* One iteration of the loop over the lines (708-725).
ParseLine(st, line) ==
    LET m == SectionMatch(line)
    IN  IF m.matched
        THEN [sections |-> FlushSection(st),
              currentKey |-> SectionKey(m.level, m.title),
              currentTitle |-> m.title,
              currentLevel |-> m.level,
              currentContent |-> <<>>]
        ELSE IF st.currentKey # <<>>
        THEN [st EXCEPT !.currentContent = Append(@, line)]
        ELSE st

RECURSIVE ParseLines(_, _)
ParseLines(st, lines) ==
    IF lines = <<>> THEN st ELSE ParseLines(ParseLine(st, Head(lines)), Tail(lines))

\* A parse that takes the text before the first heading for a section of its own.
parseAgentsContentKeepingPreface(content) ==
    FlushSection(ParseLines([sections |-> <<>>,
                             currentKey |-> <<"0", "-">>,
                             currentTitle |-> <<>>,
                             currentLevel |-> 0,
                             currentContent |-> <<>>],
                            Split(content, "\n")))

\* parseAgentsContent(content): the sections in the enumeration order of the object.
parseAgentsContent(content) ==
    FlushSection(ParseLines([sections |-> <<>>,
                             currentKey |-> <<>>,
                             currentTitle |-> <<>>,
                             currentLevel |-> 0,
                             currentContent |-> <<>>],
                            Split(content, "\n")))

(***************************************************************************)
(* mergeAgentsFiles                                                        *)
(***************************************************************************)

\* A registration that moves an already registered key to the end of the order.
RegisterSectionMovingKey(all, section) ==
    IF HasKey(all, section.key)
    THEN SelectSeq(all, LAMBDA e : e.key # section.key)
            \o <<all[IndexOfKey(all, section.key)]>>
    ELSE Append(all, [key |-> section.key, title |-> section.title,
                      level |-> section.level, contents |-> <<>>])

\* The registration at 752-758: a key not yet in allSections is appended, empty.
RegisterSection(all, section) ==
    IF HasKey(all, section.key) THEN all
    ELSE Append(all, [key |-> section.key, title |-> section.title,
                      level |-> section.level, contents |-> <<>>])

\* A guard that forgets the includes() test.
ShouldPushContentNoDedup(contents, content) ==
    content # <<>>

\* The guard at 759-762.
ShouldPushContent(contents, content) ==
    content # <<>> /\ content \notin Range(contents)

\* The body of the loop over one fragment's sections (751-765).
MergeSection(all, section) ==
    LET reg == RegisterSection(all, section)
        i == IndexOfKey(reg, section.key)
    IN  IF ShouldPushContent(reg[i].contents, section.content)
        THEN [reg EXCEPT ![i].contents = Append(@, section.content)]
        ELSE reg

RECURSIVE MergeSections(_, _)
MergeSections(all, sections) ==
    IF sections = <<>> THEN all
    ELSE MergeSections(MergeSection(all, Head(sections)), Tail(sections))

\* The body of the loop over the fragments (747-766).
MergeFile(all, fileContent) ==
    IF fileContent = <<>> THEN all
    ELSE MergeSections(all, parseAgentsContent(fileContent))

RECURSIVE MergeFiles(_, _)
MergeFiles(all, files) ==
    IF files = <<>> THEN all ELSE MergeFiles(MergeFile(all, Head(files)), Tail(files))

RECURSIVE ContentLines(_)
ContentLines(contents) ==
    IF contents = <<>> THEN <<>>
    ELSE <<Head(contents), <<>>>> \o ContentLines(Tail(contents))

\* What one section pushes on result (771-776).
SectionLines(section) ==
    <<RepeatHash(section.level) \o <<" ">> \o section.title, <<>>>>
        \o ContentLines(section.contents)

RECURSIVE ResultLines(_)
ResultLines(all) ==
    IF all = <<>> THEN <<>> ELSE SectionLines(Head(all)) \o ResultLines(Tail(all))

\* result.join('\n').trim()
RenderSections(all) == Trim(Join(ResultLines(all), "\n"))

mergeAgentsFiles(files) == RenderSections(MergeFiles(<<>>, files))

(***************************************************************************)
(* parseToolsOption and getTools                                           *)
(***************************************************************************)

NmBiome == <<"b", "i", "o", "m", "e">>
NmEslint == <<"e", "s", "l", "i", "n", "t">>
NmPrettier == <<"p", "r", "e", "t", "t", "i", "e", "r">>

\* export const BUILTIN_TOOLS = ['biome', 'eslint', 'prettier']
BUILTIN_TOOLS == <<NmBiome, NmEslint, NmPrettier>>

Null == [kind |-> "null"]
Undefined == [kind |-> "undefined"]

\* A flatMap that splits nothing.
RECURSIVE SplitToolsKeepingCommas(_)
SplitToolsKeepingCommas(toolsArr) ==
    IF toolsArr = <<>> THEN <<>>
    ELSE <<Head(toolsArr)>> \o SplitToolsKeepingCommas(Tail(toolsArr))

\* toolsArr.flatMap((tool) => tool.split(','))
RECURSIVE SplitTools(_)
SplitTools(toolsArr) ==
    IF toolsArr = <<>> THEN <<>>
    ELSE Split(Head(toolsArr), ",") \o SplitTools(Tail(toolsArr))

\* .map((tool) => tool.trim()).filter(Boolean)
TrimTools(toolsArr) ==
    SelectSeq([i \in 1..Len(toolsArr) |-> Trim(toolsArr[i])], LAMBDA t : t # <<>>)

\* parseToolsOption(tools), 78-89: Null, or [kind |-> "list", value |-> the names].
parseToolsOption(option) ==
    IF option.kind = "undefined" THEN Null
    ELSE LET toolsArr == IF option.kind = "array" THEN option.arr
                         ELSE <<option.str>>
         IN  [kind |-> "list", value |-> TrimTools(SplitTools(toolsArr))]

ExtraToolValues(extra) == {extra[i].value : i \in 1..Len(extra)}

\* A filter that keeps every name.
AnyToolKnown(tool, extra) == TRUE

\* The filter of getTools, 137-141.
IsKnownTool(tool, extra) ==
    tool \in Range(BUILTIN_TOOLS) \/ tool \in ExtraToolValues(extra)

FilterKnownTools(list, extra) == SelectSeq(list, LAMBDA t : IsKnownTool(t, extra))

\* The options of the multiselect, 149-167: the "pre" extra tools, the built-in
\* tools, then the other extra tools.
ToolOptions(extra) ==
    LET pre == SelectSeq(extra, LAMBDA t : t.order = "pre")
        post == SelectSeq(extra, LAMBDA t : t.order # "pre")
    IN  [i \in 1..Len(pre) |-> pre[i].value] \o BUILTIN_TOOLS
            \o [i \in 1..Len(post) |-> post[i].value]

(***************************************************************************)
(* package.json: JSON objects, deepmerge, mergePackageJson                 *)
(*                                                                         *)
(* A JSON object is the list of its entries in enumeration order. A        *)
(* top-level entry is [key, kind, ...] with kind "string" (str), "object"  *)
(* (obj, a list of [key, val] with string values), "array" (arr) or        *)
(* "undefined"; a top-level key is a TLA+ string, a nested key and every   *)
(* string value is a sequence of characters. No modelled key is an integer *)
(* index, so the enumeration order is the insertion order.                 *)
(***************************************************************************)

StrEntry(k, v) == [key |-> k, kind |-> "string", str |-> v]
ObjEntry(k, o) == [key |-> k, kind |-> "object", obj |-> o]
ArrEntry(k, a) == [key |-> k, kind |-> "array", arr |-> a]
UndefinedEntry(k) == [key |-> k, kind |-> "undefined"]

\* key in obj
HasProp(o, k) == \E i \in 1..Len(o) : o[i].key = k

PropIndex(o, k) == CHOOSE i \in 1..Len(o) : o[i].key = k

\* obj[key], with an "undefined" entry for a key the object lacks.
GetProp(o, k) == IF HasProp(o, k) THEN o[PropIndex(o, k)] ELSE UndefinedEntry(k)

\* obj[key] = value: an existing key keeps its place, a new one is appended.
SetProp(o, entry) ==
    IF HasProp(o, entry.key) THEN [o EXCEPT ![PropIndex(o, entry.key)] = entry]
    ELSE Append(o, entry)

RECURSIVE SetProps(_, _)
SetProps(o, entries) ==
    IF entries = <<>> THEN o ELSE SetProps(SetProp(o, Head(entries)), Tail(entries))

\* deepmerge(target[key], source[key]) for a mergeable source value.
MergeValue(te, se) ==
    IF se.kind = "array"
    THEN IF te.kind = "array" THEN ArrEntry(se.key, te.arr \o se.arr) ELSE se
    ELSE IF te.kind = "object" THEN ObjEntry(se.key, SetProps(te.obj, se.obj))
    ELSE se

\* One key of the source in deepmerge's mergeObject.
MergeEntry(target, dest, se) ==
    IF HasProp(target, se.key) /\ se.kind \in {"object", "array"}
    THEN SetProp(dest, MergeValue(GetProp(target, se.key), se))
    ELSE SetProp(dest, se)

RECURSIVE MergeEntries(_, _, _)
MergeEntries(target, dest, source) ==
    IF source = <<>> THEN dest
    ELSE MergeEntries(target, MergeEntry(target, dest, Head(source)), Tail(source))

\* deepmerge(targetJson, extraJson), 521: the target's keys first, the source's
\* scalars win, nested objects merge key-wise, arrays are concatenated.
deepmerge(target, source) == MergeEntries(target, target, source)

\* The characters of the modelled keys in ascending UTF-16 code unit order.
CodeOrder ==
    <<" ", "*", ",", "-", ".", "/", "0", "1", "2", "3", "4", "5", "6", "7", "8",
      "9", ":", "@">> \o UpperChars \o <<"^">> \o LowerChars

CharCode(c) == CHOOSE i \in 1..Len(CodeOrder) : CodeOrder[i] = c

\* a < b in the order of Array.prototype.sort without a comparator.
RECURSIVE StringLess(_, _)
StringLess(a, b) ==
    IF b = <<>> THEN FALSE
    ELSE IF a = <<>> THEN TRUE
    ELSE IF Head(a) = Head(b) THEN StringLess(Tail(a), Tail(b))
    ELSE CharCode(Head(a)) < CharCode(Head(b))

RECURSIVE InsertSorted(_, _)
InsertSorted(sorted, e) ==
    IF sorted = <<>> THEN <<e>>
    ELSE IF StringLess(e.key, Head(sorted).key) THEN <<e>> \o sorted
    ELSE <<Head(sorted)>> \o InsertSorted(Tail(sorted), e)

\* An object left as it is.
RECURSIVE KeepObjectKeys(_)
KeepObjectKeys(obj) ==
    IF obj = <<>> THEN <<>> ELSE <<Head(obj)>> \o KeepObjectKeys(Tail(obj))

\* sortObjectKeys(obj), 498-507.
RECURSIVE sortObjectKeys(_)
sortObjectKeys(obj) ==
    IF obj = <<>> THEN <<>>
    ELSE InsertSorted(sortObjectKeys(SubSeq(obj, 1, Len(obj) - 1)), obj[Len(obj)])

SortedFields == <<"scripts", "dependencies", "devDependencies">>

\* The loop at 525-532.
RECURSIVE SortFields(_, _)
SortFields(json, fields) ==
    IF fields = <<>> THEN json
    ELSE LET k == Head(fields)
             next == IF HasProp(json, k) /\ GetProp(json, k).kind = "object"
                     THEN SetProp(json, ObjEntry(k, sortObjectKeys(GetProp(json, k).obj)))
                     ELSE json
         IN  SortFields(next, Tail(fields))

\* A value || another, for the values a name takes.
Truthy(entry) == entry.kind = "string" /\ entry.str # <<>>

\* A name taken from the extra package whenever it has one.
MergedNameExtraFirst(targetJson, extraJson) ==
    IF Truthy(GetProp(extraJson, "name")) THEN GetProp(extraJson, "name")
    ELSE GetProp(targetJson, "name")

\* targetJson.name || extraJson.name, 523.
MergedName(targetJson, extraJson) ==
    IF Truthy(GetProp(targetJson, "name")) THEN GetProp(targetJson, "name")
    ELSE GetProp(extraJson, "name")

\* JSON.stringify then JSON.parse on the modelled objects: an entry whose value is
\* undefined is left out, everything else comes back in the same order.
Stringify(json) == SelectSeq(json, LAMBDA e : e.kind # "undefined")

\* The JSON mergePackageJson writes to targetPackage, 519-534.
MergedPackageJson(targetJson, extraJson) ==
    Stringify(SortFields(SetProp(deepmerge(targetJson, extraJson),
                                 MergedName(targetJson, extraJson)),
                         SortedFields))

NoFile == [exists |-> FALSE]
File(json) == [exists |-> TRUE, json |-> json]

\* mergePackageJson(targetPackage, extraPackage), 514-535, on the two files.
mergePackageJson(targetFile, extraFile) ==
    IF ~targetFile.exists THEN targetFile
    ELSE File(MergedPackageJson(targetFile.json, extraFile.json))

(***************************************************************************)
(* updatePackageJson                                                       *)
(***************************************************************************)

IsPrefixAt(s, pat, i) ==
    i + Len(pat) - 1 <= Len(s) /\ SubSeq(s, i, i + Len(pat) - 1) = pat

\* String.prototype.includes
RECURSIVE IncludesFrom(_, _, _)
IncludesFrom(s, pat, i) ==
    IF i + Len(pat) - 1 > Len(s) THEN FALSE
    ELSE IF IsPrefixAt(s, pat, i) THEN TRUE
    ELSE IncludesFrom(s, pat, i + 1)

Includes(s, pat) == IncludesFrom(s, pat, 1)

\* String.prototype.startsWith
StartsWith(str, prefix) == IsPrefixAt(str, prefix, 1)

\* s.replace(/pat/g, rep) for a literal pattern and a replacement without "$".
RECURSIVE ReplaceAllFrom(_, _, _, _)
ReplaceAllFrom(s, pat, rep, i) ==
    IF i > Len(s) THEN <<>>
    ELSE IF IsPrefixAt(s, pat, i)
    THEN rep \o ReplaceAllFrom(s, pat, rep, i + Len(pat))
    ELSE <<s[i]>> \o ReplaceAllFrom(s, pat, rep, i + 1)

ReplaceAll(s, pat, rep) == ReplaceAllFrom(s, pat, rep, 1)

TagAlpha == <<"a", "l", "p", "h", "a">>
TagBeta == <<"b", "e", "t", "a">>
TagRc == <<"r", "c">>
TagCanary == <<"c", "a", "n", "a", "r", "y">>
TagNightly == <<"n", "i", "g", "h", "t", "l", "y">>

\* ['alpha', 'beta', 'rc', 'canary', 'nightly'], 632
UnstableTags == {TagAlpha, TagBeta, TagRc, TagCanary, TagNightly}

\* A check that takes every version for stable.
IsAlwaysStable(version) == version = version

\* isStableVersion(version), 631-635.
isStableVersion(version) == \A tag \in UnstableTags : ~Includes(version, tag)

\* 'workspace:*'
WorkspaceSentinel == <<"w", "o", "r", "k", "s", "p", "a", "c", "e", ":", "*">>

\* targetVersion, 653.
TargetVersion(version) == IF isStableVersion(version) THEN <<"^">> \o version ELSE version

\* content.replace(/workspace:\*/g, targetVersion) seen on the parsed JSON, 654-657.
\* The sentinel holds no character that JSON escapes and none of JSON's own syntax,
\* so every occurrence in the text lies inside one string; the modelled keys hold
\* none, so the strings it can lie in are the values.
ReplaceInEntry(e, rep) ==
    IF e.kind = "string" THEN StrEntry(e.key, ReplaceAll(e.str, WorkspaceSentinel, rep))
    ELSE IF e.kind = "object"
    THEN ObjEntry(e.key, [i \in 1..Len(e.obj) |->
                            [key |-> e.obj[i].key,
                             val |-> ReplaceAll(e.obj[i].val, WorkspaceSentinel, rep)]])
    ELSE IF e.kind = "array"
    THEN ArrEntry(e.key, [i \in 1..Len(e.arr) |->
                            ReplaceAll(e.arr[i], WorkspaceSentinel, rep)])
    ELSE e

ReplaceSentinel(json, rep) == [i \in 1..Len(json) |-> ReplaceInEntry(json[i], rep)]

\* pkg.dependencies?.[name] as a condition, 661 and 664.
HasTruthyDep(json, field, name) ==
    /\ HasProp(json, field)
    /\ GetProp(json, field).kind = "object"
    /\ HasProp(GetProp(json, field).obj, name)
    /\ GetProp(GetProp(json, field).obj, name).val # <<>>

\* pkg.dependencies[name] = ver, 662 and 665.
SetDep(json, field, name, ver) ==
    SetProp(json, ObjEntry(field,
                           SetProp(GetProp(json, field).obj, [key |-> name, val |-> ver])))

\* One iteration of the loop at 660-667.
ApplyVersionEntry(json, entry) ==
    LET j1 == IF HasTruthyDep(json, "dependencies", entry.key)
              THEN SetDep(json, "dependencies", entry.key, entry.val) ELSE json
    IN  IF HasTruthyDep(j1, "devDependencies", entry.key)
        THEN SetDep(j1, "devDependencies", entry.key, entry.val) ELSE j1

RECURSIVE ApplyVersionEntries(_, _)
ApplyVersionEntries(json, entries) ==
    IF entries = <<>> THEN json
    ELSE ApplyVersionEntries(ApplyVersionEntry(json, Head(entries)), Tail(entries))

NameDot == <<".">>

\* The name written at 670-677; dirBase is path.basename(path.dirname(pkgJsonPath)).
ApplyName(json, name, dirBase) ==
    IF name.kind = "string" /\ name.str = NameDot
    THEN IF Len(dirBase) # 0 THEN SetProp(json, StrEntry("name", dirBase)) ELSE json
    ELSE IF name.kind = "string" /\ name.str # <<>>
    THEN SetProp(json, StrEntry("name", name.str))
    ELSE json

\* The JSON updatePackageJson writes, 649-679.
UpdatedPackageJson(json, version, name, dirBase) ==
    LET replaced == IF version.kind = "string"
                    THEN ReplaceSentinel(json, TargetVersion(version.str))
                    ELSE json
        versioned == IF version.kind = "object"
                     THEN ApplyVersionEntries(replaced, version.obj)
                     ELSE replaced
    IN  Stringify(ApplyName(versioned, name, dirBase))

\* updatePackageJson(pkgJsonPath, version, name), 644-680, on the file.
updatePackageJson(file, version, name, dirBase) ==
    File(UpdatedPackageJson(file.json, version, name, dirBase))

(***************************************************************************)
(* The fragments the merger is run on                                      *)
(***************************************************************************)

LnH1A == <<"#", " ", "A">>
LnH2T == <<"#", "#", " ", "T">>
LnH2t == <<"#", "#", " ", "t">>
LnH3S == <<"#", "#", "#", " ", "S">>
LnX == <<"X">>
LnY == <<"Y">>
LnXPadded == <<" ", "X", " ">>
LnBlank == <<>>
LnH1Untitled == <<"#", " ", " ">>
LnH2TIndented == <<" ", "#", "#", " ", "T">>

LinePool == {LnH1A, LnH2T, LnH2t, LnX, LnY}

\* Every fragment of one or two pooled lines.
ShortFragments ==
    {Join(<<a>>, "\n") : a \in LinePool}
        \cup {Join(<<a, b>>, "\n") : a \in LinePool, b \in LinePool}

\* Fragments shaped like the fixtures of test/agents.test.ts: several sections, a
\* depth-3 heading in a body, blank lines, text before the first heading, a key
\* repeated in one fragment, a body that differs from another by its padding only,
\* a heading whose title is white space, a body that starts with an indented '##'.
LongFragments ==
    {Join(<<LnH1A, LnX, LnH2T, LnH3S, LnY>>, "\n"),
     Join(<<LnH1A, LnX, LnH2T, LnX>>, "\n"),
     Join(<<LnH1A, LnX, LnH2T, LnY>>, "\n"),
     Join(<<LnH2T, LnX, LnH2T, LnY>>, "\n"),
     Join(<<LnH2T, LnY, LnH1A, LnH2t, LnX>>, "\n"),
     Join(<<LnX, LnH2T, LnXPadded, LnBlank>>, "\n"),
     Join(<<LnH2T, LnBlank, LnH3S, LnX, LnBlank, LnY, LnBlank>>, "\n"),
     Join(<<LnH3S, LnX>>, "\n"),
     Join(<<LnH1Untitled, LnX>>, "\n"),
     Join(<<LnH1A, LnH2TIndented, LnX>>, "\n")}

\* The empty text is a fragment mergeAgentsFiles skips (748).
FragmentPool == ShortFragments \cup LongFragments \cup {<<>>}

MaxFrags == 2

AgentsInputs == UNION {[1..n -> FragmentPool] : n \in 0..MaxFrags}

(***************************************************************************)
(* The merger as a state machine: one call of mergeAgentsFiles             *)
(***************************************************************************)

ToolsIdle ==
    /\ toolsOption = Undefined
    /\ dirAndTemplate = FALSE
    /\ extraTools = <<>>
    /\ parsedTools = Null
    /\ tools = <<>>
    /\ toolsPrompted = FALSE
    /\ toolsPc = "idle"

CreateIdle ==
    /\ disk = <<>>
    /\ distFolder = <<>>
    /\ destAtStart = <<>>
    /\ toolCalls = <<>>
    /\ destBefore = <<>>
    /\ copyFrom = <<>>
    /\ override = FALSE
    /\ templateName = <<>>
    /\ packageName = Undefined
    /\ packageManager = <<>>
    /\ createVersion = Undefined
    /\ skipFiles = <<>>
    /\ eslintMapping = Undefined
    /\ agentsMdSearchDirs = <<>>
    /\ toolIndex = 0
    /\ agentsWritten = FALSE
    /\ createLog = <<>>
    /\ createPc = "idle"

FormatIdle ==
    /\ formatInput = <<>>
    /\ formatResult = Null
    /\ formatPc = "idle"

RunIdle ==
    /\ userAgent = Undefined
    /\ runCommandArg = <<>>
    /\ spawned = Null
    /\ runPc = "idle"

CopyIdle ==
    /\ copySource = <<>>
    /\ copyOptions = Undefined
    /\ copyResult = <<>>
    /\ copyPc = "idle"

UtilIdle == FormatIdle /\ RunIdle /\ CopyIdle

PkgIdle ==
    /\ targetPackage = NoFile
    /\ extraPackage = NoFile
    /\ pkgBefore = NoFile
    /\ versionArg = Undefined
    /\ nameArg = Undefined
    /\ pkgDirBase = <<>>
    /\ pkgOps = <<>>

InitAgents ==
    /\ agentsFiles \in AgentsInputs
    /\ allSections = <<>>
    /\ mergedAgents = <<>>
    /\ agentsPc = "ready"
    /\ ToolsIdle
    /\ PkgIdle
    /\ CreateIdle
    /\ UtilIdle

\* mergeAgentsFiles(agentsFiles), 741-780.
MergeAgentsFiles ==
    /\ agentsPc = "ready"
    /\ allSections' = MergeFiles(<<>>, agentsFiles)
    /\ mergedAgents' = mergeAgentsFiles(agentsFiles)
    /\ agentsPc' = "merged"
    /\ UNCHANGED <<agentsFiles, toolsVars, pkgVars, createVars, utilVars>>

NextAgents == MergeAgentsFiles

SpecAgents == InitAgents /\ [][NextAgents]_vars

(***************************************************************************)
(* Claims about the merger                                                 *)
(***************************************************************************)

\* A sequence with every element that equals an earlier one removed.
RECURSIVE Dedup(_)
Dedup(s) ==
    IF s = <<>> THEN <<>>
    ELSE LET front == Dedup(SubSeq(s, 1, Len(s) - 1))
         IN  IF s[Len(s)] \in Range(front) THEN front ELSE Append(front, s[Len(s)])

\* The non-empty trimmed bodies the fragments contribute under key, in fragment order.
RECURSIVE ContributedBodies(_, _)
ContributedBodies(files, key) ==
    IF files = <<>> THEN <<>>
    ELSE LET parsed == parseAgentsContent(Head(files))
             here == IF HasKey(parsed, key)
                        /\ parsed[IndexOfKey(parsed, key)].content # <<>>
                     THEN <<parsed[IndexOfKey(parsed, key)].content>>
                     ELSE <<>>
         IN  here \o ContributedBodies(Tail(files), key)

\* C1: once merged, the bodies listed under every section key are exactly the
\* non-empty trimmed bodies the fragments contributed under that key, in fragment
\* order, each body that equals an earlier one removed.
C1_BodiesInOrderDeduped ==
    agentsPc = "merged" =>
        \A i \in 1..Len(allSections) :
            allSections[i].contents
                = Dedup(ContributedBodies(agentsFiles, allSections[i].key))

\* C1's case: one key got the same body from two fragments (kept once) and another
\* key got two different bodies (both kept, in fragment order).
C1_Witness ==
    /\ agentsPc = "merged"
    /\ Len(agentsFiles) = 2
    /\ \E i, j \in 1..Len(allSections) :
        /\ ContributedBodies(agentsFiles, allSections[i].key) = <<LnX, LnX>>
        /\ allSections[i].contents = <<LnX>>
        /\ ContributedBodies(agentsFiles, allSections[j].key) = <<LnX, LnY>>
        /\ allSections[j].contents = <<LnX, LnY>>

\* The keys of the heading lines of a text, in line order.
RECURSIVE LineKeys(_)
LineKeys(lines) ==
    IF lines = <<>> THEN <<>>
    ELSE LET m == SectionMatch(Head(lines))
         IN  (IF m.matched THEN <<SectionKey(m.level, m.title)>> ELSE <<>>)
                 \o LineKeys(Tail(lines))

RECURSIVE EncounteredKeys(_)
EncounteredKeys(files) ==
    IF files = <<>> THEN <<>>
    ELSE LineKeys(Split(Head(files), "\n")) \o EncounteredKeys(Tail(files))

EmittedKeys == [i \in 1..Len(allSections) |-> allSections[i].key]

\* C2: once merged, the emitted sections are the section keys of the fragments'
\* depth-1 and depth-2 headings, each exactly once, in the order in which the keys
\* were first encountered across the fragments in list order.
C2_KeysOnceInFirstSeenOrder ==
    agentsPc = "merged" => EmittedKeys = Dedup(EncounteredKeys(agentsFiles))

\* C2's case: the second fragment names the two registered keys in the opposite
\* order, and the merged order stays that of the first fragment.
C2_Witness ==
    /\ agentsPc = "merged"
    /\ Len(agentsFiles) = 2
    /\ Len(allSections) = 2
    /\ LineKeys(Split(agentsFiles[1], "\n")) = <<allSections[1].key, allSections[2].key>>
    /\ LineKeys(Split(agentsFiles[2], "\n")) = <<allSections[2].key, allSections[1].key>>

(***************************************************************************)
(* getTools as a state machine: one call, with the user's answer as input  *)
(***************************************************************************)

NmCustom == <<"c", "u", "s", "t", "o", "m">>
NmUnknown == <<"x">>
NmEslintPadded == <<" ">> \o NmEslint \o <<" ">>
NmPacked == NmEslint \o <<",">> \o NmPrettier
NmPackedLoose == NmBiome \o <<",", " ">> \o NmCustom \o <<",">>

\* The values one --tools argument is drawn from.
ToolArgPool ==
    {NmBiome, NmEslint, NmPrettier, NmCustom, NmUnknown, NmEslintPadded,
     NmPacked, NmPackedLoose, <<>>}

MaxToolArgs == 2

\* argv.tools: absent, one string, or the list of the repeated option's values.
ToolsOptions ==
    {Undefined}
        \cup {[kind |-> "string", str |-> v] : v \in ToolArgPool}
        \cup {[kind |-> "array", arr |-> a] :
                a \in UNION {[1..n -> ToolArgPool] : n \in 0..MaxToolArgs}}

ExtraToolsPool ==
    {<<>>,
     <<[value |-> NmCustom, order |-> "post"]>>,
     <<[value |-> NmCustom, order |-> "pre"]>>}

AgentsIdle ==
    /\ agentsFiles = <<>>
    /\ allSections = <<>>
    /\ mergedAgents = <<>>
    /\ agentsPc = "idle"

InitTools ==
    /\ toolsOption \in ToolsOptions
    /\ dirAndTemplate \in BOOLEAN
    /\ extraTools \in ExtraToolsPool
    /\ parsedTools = Null
    /\ tools = <<>>
    /\ toolsPrompted = FALSE
    /\ toolsPc = "ready"
    /\ AgentsIdle
    /\ PkgIdle
    /\ CreateIdle
    /\ UtilIdle

\* getTools, 134-143: the tools come from the option.
GetToolsFromOption ==
    /\ toolsPc = "ready"
    /\ parseToolsOption(toolsOption) # Null
    /\ parsedTools' = parseToolsOption(toolsOption)
    /\ tools' = FilterKnownTools(parseToolsOption(toolsOption).value, extraTools)
    /\ toolsPc' = "resolved"
    /\ UNCHANGED <<toolsOption, dirAndTemplate, extraTools, toolsPrompted, agentsVars, pkgVars, createVars, utilVars>>

\* getTools, 145-147: no option, and both --dir and --template were given.
GetToolsSkipped ==
    /\ toolsPc = "ready"
    /\ parseToolsOption(toolsOption) = Null
    /\ dirAndTemplate
    /\ tools' = <<>>
    /\ toolsPc' = "resolved"
    /\ UNCHANGED <<toolsOption, dirAndTemplate, extraTools, parsedTools,
                   toolsPrompted, agentsVars, pkgVars, createVars, utilVars>>

\* getTools, 149-176: the user answers the multiselect with some of its options.
GetToolsAnswered ==
    /\ toolsPc = "ready"
    /\ parseToolsOption(toolsOption) = Null
    /\ ~dirAndTemplate
    /\ \E chosen \in SUBSET Range(ToolOptions(extraTools)) :
        tools' = SelectSeq(ToolOptions(extraTools), LAMBDA t : t \in chosen)
    /\ toolsPrompted' = TRUE
    /\ toolsPc' = "resolved"
    /\ UNCHANGED <<toolsOption, dirAndTemplate, extraTools, parsedTools, agentsVars, pkgVars, createVars, utilVars>>

\* getTools, 169 and checkCancel, 30-35: the user cancels the multiselect.
GetToolsCancelled ==
    /\ toolsPc = "ready"
    /\ parseToolsOption(toolsOption) = Null
    /\ ~dirAndTemplate
    /\ toolsPrompted' = TRUE
    /\ toolsPc' = "exited"
    /\ UNCHANGED <<toolsOption, dirAndTemplate, extraTools, parsedTools, tools,
                   agentsVars, pkgVars, createVars, utilVars>>

NextTools ==
    \/ GetToolsFromOption
    \/ GetToolsSkipped
    \/ GetToolsAnswered
    \/ GetToolsCancelled

SpecTools == InitTools /\ [][NextTools]_vars

(***************************************************************************)
(* Claims about the tools option                                           *)
(***************************************************************************)

\* The same names given as one comma-packed argument.
PackedOption(option) == [kind |-> "array", arr |-> <<Join(option.arr, ",")>>]

\* C6: the names given as separate --tools arguments resolve to the same parsed
\* list and the same tool list as the one argument that packs them with commas,
\* and every parsed name is trimmed, non-empty and free of commas.
C6_PackedEqualsSeparate ==
    (toolsPc = "resolved" /\ toolsOption.kind = "array") =>
        /\ parsedTools = parseToolsOption(PackedOption(toolsOption))
        /\ tools = FilterKnownTools(parseToolsOption(PackedOption(toolsOption)).value,
                                    extraTools)
        /\ \A i \in 1..Len(parsedTools.value) :
            /\ parsedTools.value[i] # <<>>
            /\ Trim(parsedTools.value[i]) = parsedTools.value[i]
            /\ "," \notin Range(parsedTools.value[i])

\* C6's case: [" eslint ", "prettier"] was resolved to eslint and prettier, as its
\* packing " eslint ,prettier" is.
C6_Witness ==
    /\ toolsPc = "resolved"
    /\ toolsOption.kind = "array"
    /\ toolsOption.arr = <<NmEslintPadded, NmPrettier>>
    /\ PackedOption(toolsOption).arr = <<NmEslintPadded \o <<",">> \o NmPrettier>>
    /\ tools = <<NmEslint, NmPrettier>>

(***************************************************************************)
(* The package.json operations as a state machine: what copyFolder does to *)
(* the destination package.json, overlay after overlay (608-616)           *)
(***************************************************************************)

KeyA == <<"a">>
KeyB == <<"b">>
KeyUpperB == <<"B">>
KeyScoped == <<"@", "s", "/", "x">>
KeyLint == <<"l", "i", "n", "t">>
Val1 == <<"1">>
Val2 == <<"2">>
Val9 == <<"9">>
ValEmpty == <<>>
ValEmbedded == <<"x", "@">> \o WorkspaceSentinel
NameApp == <<"a", "p", "p">>
NameTool == <<"t", "o", "o", "l">>
NameProj == <<"p", "r", "o", "j">>
NameDir == <<"d", "i", "r">>

Dep(k, v) == [key |-> k, val |-> v]

\* The package.json files found at the destination.
TargetJsonPool ==
    {<<ObjEntry("dependencies", <<Dep(KeyA, Val1)>>)>>,
     <<StrEntry("name", NameApp),
       ObjEntry("dependencies", <<Dep(KeyB, WorkspaceSentinel), Dep(KeyA, Val1)>>),
       ObjEntry("devDependencies", <<Dep(KeyScoped, WorkspaceSentinel)>>)>>,
     <<StrEntry("name", <<>>),
       ObjEntry("scripts", <<Dep(KeyLint, Val1)>>),
       ObjEntry("dependencies", <<Dep(KeyA, ValEmpty)>>)>>,
     <<StrEntry("name", NameApp),
       ArrEntry("files", <<Val1>>),
       ObjEntry("scripts", <<Dep(KeyB, Val1), Dep(KeyA, Val2)>>)>>,
     <<StrEntry("version", Val1)>>,
     <<StrEntry("name", NameApp),
       ObjEntry("devDependencies", <<Dep(KeyA, ValEmbedded), Dep(KeyUpperB, Val2)>>)>>}

\* The package.json files an overlay brings.
ExtraJsonPool ==
    {<<ObjEntry("dependencies", <<Dep(KeyB, Val2)>>)>>,
     <<StrEntry("name", NameTool),
       ObjEntry("devDependencies", <<Dep(KeyA, WorkspaceSentinel), Dep(KeyUpperB, Val1)>>),
       ObjEntry("scripts", <<Dep(KeyA, Val2)>>)>>,
     <<StrEntry("name", <<>>),
       ObjEntry("dependencies", <<Dep(KeyScoped, WorkspaceSentinel), Dep(KeyA, Val2)>>)>>,
     <<ArrEntry("files", <<Val2>>),
       ObjEntry("scripts", <<Dep(KeyUpperB, Val1)>>)>>,
     <<StrEntry("name", NameTool)>>}

Ver123 == <<"1", ".", "2", ".", "3">>
VerCanary == <<"1", ".", "2", ".", "3", "-", "c", "a", "n", "a", "r", "y", ".", "0">>
VerBeta == <<"1", ".", "0", ".", "0", "-", "b", "e", "t", "a", ".", "1">>
VerRc == <<"2", ".", "0", ".", "0", "-", "r", "c", ".", "1">>
VerNightly == <<"0", ".", "1", ".", "0", "-", "n", "i", "g", "h", "t", "l", "y">>
VerAlpha == <<"1", ".", "0", ".", "0", "-", "a", "l", "p", "h", "a">>
VerNext == <<"1", ".", "0", ".", "0", "-", "n", "e", "x", "t", ".", "0">>

VersionStrings == {Ver123, VerCanary, VerBeta, VerRc, VerNightly, VerAlpha, VerNext}

\* The version argument: absent, one string, or a mapping from names to versions.
VersionPool ==
    {Undefined}
        \cup {[kind |-> "string", str |-> v] : v \in VersionStrings}
        \cup {[kind |-> "object", obj |-> <<Dep(KeyA, Val9)>>],
              [kind |-> "object",
               obj |-> <<Dep(KeyB, Val9), Dep(KeyScoped, Ver123), Dep(KeyLint, Val9)>>]}

\* The name argument with the directory the package.json lies in.
NamePool ==
    {<<Undefined, NameDir>>,
     <<[kind |-> "string", str |-> <<>>], NameDir>>,
     <<[kind |-> "string", str |-> NameProj], NameDir>>,
     <<[kind |-> "string", str |-> NameDot], NameDir>>,
     <<[kind |-> "string", str |-> NameDot], <<>>>>}

MaxPkgOps == 3

InitPkg ==
    /\ targetPackage \in {NoFile} \cup {File(j) : j \in TargetJsonPool}
    /\ extraPackage \in {File(j) : j \in ExtraJsonPool}
    /\ pkgBefore = targetPackage
    /\ versionArg \in VersionPool
    /\ \E n \in NamePool : nameArg = n[1] /\ pkgDirBase = n[2]
    /\ pkgOps = <<>>
    /\ AgentsIdle
    /\ ToolsIdle
    /\ CreateIdle
    /\ UtilIdle

\* mergePackageJson(targetPackage, extraPackage), 514-535.
MergePackageJson ==
    /\ Len(pkgOps) < MaxPkgOps
    /\ extraPackage.exists
    /\ pkgBefore' = targetPackage
    /\ targetPackage' = mergePackageJson(targetPackage, extraPackage)
    /\ pkgOps' = Append(pkgOps, "merge")
    /\ UNCHANGED <<extraPackage, versionArg, nameArg, pkgDirBase, agentsVars, toolsVars,
                   createVars, utilVars>>

\* fs.copyFileSync(srcFile, distFile) for a package.json, 614.
CopyPackageJson ==
    /\ Len(pkgOps) < MaxPkgOps
    /\ extraPackage.exists
    /\ pkgBefore' = targetPackage
    /\ targetPackage' = extraPackage
    /\ pkgOps' = Append(pkgOps, "copy")
    /\ UNCHANGED <<extraPackage, versionArg, nameArg, pkgDirBase, agentsVars, toolsVars,
                   createVars, utilVars>>

\* updatePackageJson(distFile, version, packageName), 644-680.
UpdatePackageJson ==
    /\ Len(pkgOps) < MaxPkgOps
    /\ targetPackage.exists
    /\ pkgBefore' = targetPackage
    /\ targetPackage' = updatePackageJson(targetPackage, versionArg, nameArg, pkgDirBase)
    /\ pkgOps' = Append(pkgOps, "update")
    /\ UNCHANGED <<extraPackage, versionArg, nameArg, pkgDirBase, agentsVars, toolsVars,
                   createVars, utilVars>>

NextPkg ==
    \/ MergePackageJson
    \/ CopyPackageJson
    \/ UpdatePackageJson

SpecPkg == InitPkg /\ [][NextPkg]_vars

(***************************************************************************)
(* Claims about the package.json operations                                *)
(***************************************************************************)

LastOp == IF pkgOps = <<>> THEN "none" ELSE pkgOps[Len(pkgOps)]

\* The latest operation was a merge that found its target.
JustMerged == LastOp = "merge" /\ pkgBefore.exists

\* The keys of a field that is a mapping, in enumeration order.
FieldKeySeq(json, field) ==
    IF HasProp(json, field) /\ GetProp(json, field).kind = "object"
    THEN [i \in 1..Len(GetProp(json, field).obj) |-> GetProp(json, field).obj[i].key]
    ELSE <<>>

IsAscending(keys) == \A i, j \in 1..Len(keys) : i < j => StringLess(keys[i], keys[j])

ExampleMerged == <<ObjEntry("dependencies", <<Dep(KeyA, Val1), Dep(KeyB, Val2)>>)>>

\* C7: after mergePackageJson on an existing target, each of scripts, dependencies
\* and devDependencies of the result holds exactly the keys of the target and of the
\* extra, in ascending order; {dependencies:{a:1}} merged with {dependencies:{b:2}}
\* is {dependencies:{a:1,b:2}}; and a second merge with the same extra leaves the
\* order of the keys as it was.
C7_MergedKeysUnionAscending ==
    JustMerged =>
        /\ \A f \in Range(SortedFields) :
            /\ Range(FieldKeySeq(targetPackage.json, f))
                 = Range(FieldKeySeq(pkgBefore.json, f))
                     \cup Range(FieldKeySeq(extraPackage.json, f))
            /\ IsAscending(FieldKeySeq(targetPackage.json, f))
        /\ (/\ pkgBefore.json = <<ObjEntry("dependencies", <<Dep(KeyA, Val1)>>)>>
            /\ extraPackage.json = <<ObjEntry("dependencies", <<Dep(KeyB, Val2)>>)>>)
               => targetPackage.json = ExampleMerged
        /\ (Len(pkgOps) >= 2 /\ pkgOps[Len(pkgOps) - 1] = "merge")
               => \A f \in Range(SortedFields) :
                    FieldKeySeq(targetPackage.json, f) = FieldKeySeq(pkgBefore.json, f)

\* C7's case: a target whose dependencies came unsorted was merged twice with an
\* extra that adds a key sorting before one of them, and the keys are ascending.
C7_Witness ==
    /\ pkgOps = <<"merge", "merge">>
    /\ pkgBefore.exists
    /\ FieldKeySeq(extraPackage.json, "dependencies") = <<KeyScoped, KeyA>>
    /\ FieldKeySeq(targetPackage.json, "dependencies") = <<KeyScoped, KeyA, KeyB>>
    /\ FieldKeySeq(targetPackage.json, "devDependencies") = <<KeyScoped>>

\* The version holds one of the markers alpha, beta, rc, canary, nightly.
HasMarker(version) ==
    \E tag \in UnstableTags :
        \E i \in 1..Len(version) : IsPrefixAt(version, tag, i)

\* What the claim expects in place of the sentinel.
ExpectedVersion(version) == IF HasMarker(version) THEN version ELSE <<"^">> \o version

JustUpdated == LastOp = "update"

DependencyFields == {"dependencies", "devDependencies"}

\* C8: after updatePackageJson with a single string for version, every sentinel
\* 'workspace:*' in the dependencies and devDependencies is replaced by '^' and the
\* version when the version holds none of alpha, beta, rc, canary, nightly, and by
\* the version alone otherwise; '1.2.3' gives '^1.2.3' and '1.2.3-canary.0' gives
\* '1.2.3-canary.0'.
C8_SentinelBecomesVersion ==
    (JustUpdated /\ versionArg.kind = "string") =>
        /\ \A f \in DependencyFields :
            LET before == GetProp(pkgBefore.json, f)
                after == GetProp(targetPackage.json, f)
            IN  before.kind = "object" =>
                    /\ after.kind = "object"
                    /\ Len(after.obj) = Len(before.obj)
                    /\ \A i \in 1..Len(before.obj) :
                        /\ after.obj[i].key = before.obj[i].key
                        /\ after.obj[i].val
                             = ReplaceAll(before.obj[i].val, WorkspaceSentinel,
                                          ExpectedVersion(versionArg.str))
                        /\ before.obj[i].val = WorkspaceSentinel
                             => /\ versionArg.str = Ver123
                                    => after.obj[i].val = <<"^">> \o Ver123
                                /\ versionArg.str = VerCanary
                                    => after.obj[i].val = VerCanary
                        /\ ~Includes(after.obj[i].val, WorkspaceSentinel)

\* C8's case: the version '1.2.3' was written into a package.json whose
\* dependencies held the sentinel, and the value is now '^1.2.3'.
C8_Witness ==
    /\ JustUpdated
    /\ versionArg.kind = "string"
    /\ versionArg.str = Ver123
    /\ \E i \in 1..Len(FieldKeySeq(pkgBefore.json, "dependencies")) :
        /\ GetProp(pkgBefore.json, "dependencies").obj[i].val = WorkspaceSentinel
        /\ GetProp(targetPackage.json, "dependencies").obj[i].val = <<"^">> \o Ver123

\* The keys of a mapping that is a field of json.
FieldKeys(json, field) == Range(FieldKeySeq(json, field))

\* C9: after updatePackageJson with a mapping for version, every key of the mapping
\* that dependencies or devDependencies held before now has the mapping's value
\* there, whatever its value was, every other key has the value it had, and the
\* key sets of dependencies and devDependencies are what they were.
C9_MappingOverwritesContainedKeys ==
    (JustUpdated /\ versionArg.kind = "object") =>
        \A f \in DependencyFields :
            /\ FieldKeySeq(targetPackage.json, f) = FieldKeySeq(pkgBefore.json, f)
            /\ \A i \in 1..Len(FieldKeySeq(pkgBefore.json, f)) :
                LET key == GetProp(pkgBefore.json, f).obj[i].key
                    was == GetProp(pkgBefore.json, f).obj[i].val
                    now == GetProp(targetPackage.json, f).obj[i].val
                IN  IF HasProp(versionArg.obj, key)
                    THEN now = GetProp(versionArg.obj, key).val
                    ELSE now = was

\* C10: after mergePackageJson on an existing target, the name of the result is the
\* name the target had when that name is a non-empty string, and the name of the
\* extra otherwise.
C10_NameTargetFirst ==
    JustMerged =>
        LET was == GetProp(pkgBefore.json, "name")
            extra == GetProp(extraPackage.json, "name")
            now == GetProp(targetPackage.json, "name")
        IN  IF was.kind = "string" /\ was.str # <<>> THEN now = was ELSE now = extra

\* C10's case: the target was named 'app', the extra 'tool', and the merged
\* package.json is still named 'app'.
C10_Witness ==
    /\ JustMerged
    /\ GetProp(pkgBefore.json, "name") = StrEntry("name", NameApp)
    /\ GetProp(extraPackage.json, "name") = StrEntry("name", NameTool)
    /\ GetProp(targetPackage.json, "name") = StrEntry("name", NameApp)

(***************************************************************************)
(* Files and folders                                                       *)
(*                                                                         *)
(* A source folder is the list of its children as fs.readdirSync gives     *)
(* them, each a file with its content or a folder with its own children.   *)
(* The destination is a function from a path below distFolder (the list of *)
(* its segments, the empty list for distFolder itself) to an entry. A name *)
(* is a sequence of characters. No modelled name is a file in one tree and *)
(* a folder in another, so no copy meets an entry of the other type.       *)
(***************************************************************************)

NoContent == [kind |-> "none", text |-> <<>>, json |-> <<>>]
TextContent(t) == [kind |-> "text", text |-> t, json |-> <<>>]
JsonContent(j) == [kind |-> "json", text |-> <<>>, json |-> j]

FileNode(name, content) ==
    [name |-> name, isDir |-> FALSE, children |-> <<>>, content |-> content]
DirNode(name, children) ==
    [name |-> name, isDir |-> TRUE, children |-> children, content |-> NoContent]

DirEntry == [isDir |-> TRUE, content |-> NoContent]
FileEntry(content) == [isDir |-> FALSE, content |-> content]

\* A destination that does not exist.
NoFolder == [path \in {} |-> DirEntry]

NmAgentsMd == <<"A", "G", "E", "N", "T", "S", ".", "m", "d">>
NmPackageJson == <<"p", "a", "c", "k", "a", "g", "e", ".", "j", "s", "o", "n">>
NmGitignore == <<"g", "i", "t", "i", "g", "n", "o", "r", "e">>
NmDotGitignore == <<".", "g", "i", "t", "i", "g", "n", "o", "r", "e">>
NmNodeModules == <<"n", "o", "d", "e", "_", "m", "o", "d", "u", "l", "e", "s">>
NmDist == <<"d", "i", "s", "t">>
NmDotGit == <<".", "g", "i", "t">>
NmBiomeTemplate == <<"b", "i", "o", "m", "e", ".", "j", "s", "o", "n", ".", "t", "e", "m", "p", "l", "a", "t", "e">>
NmBiomeJson == <<"b", "i", "o", "m", "e", ".", "j", "s", "o", "n">>

\* fs.existsSync(path) on the destination.
ExistsSync(fs, path) == path \in DOMAIN fs

\* fs.mkdirSync(path, { recursive: true }), 587.
RECURSIVE MkdirRecursive(_, _)
MkdirRecursive(fs, path) ==
    IF ExistsSync(fs, path) THEN fs
    ELSE LET parent == IF path = <<>> THEN fs
                       ELSE MkdirRecursive(fs, SubSeq(path, 1, Len(path) - 1))
         IN  (path :> DirEntry) @@ parent

\* fs.copyFileSync / fs.writeFileSync: the file at path now holds content.
WriteFile(fs, path, content) == (path :> FileEntry(content)) @@ fs

\* fs.readdirSync(path) on the destination: the names of its children.
Readdir(fs, path) ==
    {p[Len(p)] : p \in {q \in DOMAIN fs : Len(q) = Len(path) + 1
                                          /\ SubSeq(q, 1, Len(path)) = path}}

\* A test that does not look past a '.git'.
IsEmptyDirWithoutGitCase(fs, path) == Readdir(fs, path) = {}

\* isEmptyDir(path), 73-76.
isEmptyDir(fs, path) == Readdir(fs, path) = {} \/ Readdir(fs, path) = {NmDotGit}

HasChild(children, name) == \E i \in 1..Len(children) : children[i].name = name

Child(children, name) ==
    children[CHOOSE i \in 1..Len(children) : children[i].name = name]

\* The folder at path below a folder exists.
RECURSIVE HasFolderAt(_, _)
HasFolderAt(children, path) ==
    IF path = <<>> THEN TRUE
    ELSE /\ HasChild(children, Head(path))
         /\ Child(children, Head(path)).isDir
         /\ HasFolderAt(Child(children, Head(path)).children, Tail(path))

\* The children of the folder at path below a folder.
RECURSIVE ChildrenAt(_, _)
ChildrenAt(children, path) ==
    IF path = <<>> THEN children
    ELSE ChildrenAt(Child(children, Head(path)).children, Tail(path))

\* String.prototype.endsWith
EndsWith(str, suffix) ==
    Len(suffix) <= Len(str)
        /\ SubSeq(str, Len(str) - Len(suffix) + 1, Len(str)) = suffix

\* A test that takes every file for markdown.
IsAnyFile(file) == TRUE

\* isMarkdown(file), 537-538.
isMarkdown(file) ==
    EndsWith(file, <<".", "m", "d">>) \/ EndsWith(file, <<".", "m", "d", "x">>)

\* `{{ ${key} }}`, 547: no modelled key holds a character special in a RegExp.
PlaceholderOf(key) == <<"{", "{", " ">> \o key \o <<" ", "}", "}">>

\* replacePlaceholder(content, templateParameters), 540-552.
RECURSIVE ReplaceKeys(_, _)
ReplaceKeys(content, entries) ==
    IF entries = <<>> THEN content
    ELSE ReplaceKeys(ReplaceAll(content, PlaceholderOf(Head(entries).key),
                                Head(entries).val),
                     Tail(entries))

replacePlaceholder(content, templateParameters) ==
    ReplaceKeys(content, templateParameters.obj)

(***************************************************************************)
(* copyFolder                                                              *)
(***************************************************************************)

\* renameFiles[file] ? renameFiles[file] : file, 580-597.
RenameFile(file) == IF file = NmGitignore THEN NmDotGitignore ELSE file

\* A recursion that forgets the caller's skip list.
RecursionOptionsWithoutSkips(opts) ==
    [version |-> opts.version,
     packageName |-> Undefined,
     templateParameters |-> opts.templateParameters,
     isMergePackageJson |-> FALSE,
     skipFiles |-> <<>>]

\* The options of the recursive call, 601-607: packageName and isMergePackageJson
\* are not handed down.
RecursionOptions(opts) ==
    [version |-> opts.version,
     packageName |-> Undefined,
     templateParameters |-> opts.templateParameters,
     isMergePackageJson |-> FALSE,
     skipFiles |-> opts.skipFiles]

\* allSkipFiles, 585.
AllSkipFiles(skip) == {NmNodeModules, NmDist} \cup Range(skip)

\* path.basename(path.dirname(pkgJsonPath)) for a package.json in the folder to.
DistBaseName == <<"p", "r", "o", "j">>
DirBaseName(to) == IF to = <<>> THEN DistBaseName ELSE to[Len(to)]

RECURSIVE copyFolder(_, _, _, _)
RECURSIVE CopyChildren(_, _, _, _)

\* A package.json branch that updates a copy and leaves a merged file as merged.
PlacePackageJsonUpdatingCopiesOnly(fs, node, to, opts) ==
    LET targetPath == Append(to, NmPackageJson)
    IN  IF opts.isMergePackageJson /\ ExistsSync(fs, targetPath)
        THEN WriteFile(fs, targetPath,
                       JsonContent(MergedPackageJson(fs[targetPath].content.json,
                                                     node.content.json)))
        ELSE WriteFile(fs, targetPath,
                       JsonContent(UpdatedPackageJson(node.content.json, opts.version,
                                                      opts.packageName, DirBaseName(to))))

\* The package.json branch, 608-616.
PlacePackageJson(fs, node, to, opts) ==
    LET targetPath == Append(to, NmPackageJson)
        placed == IF opts.isMergePackageJson /\ ExistsSync(fs, targetPath)
                  THEN MergedPackageJson(fs[targetPath].content.json,
                                         node.content.json)
                  ELSE node.content.json
    IN  WriteFile(fs, targetPath,
                  JsonContent(UpdatedPackageJson(placed, opts.version, opts.packageName,
                                                 DirBaseName(to))))

\* A copy that leaves a file the destination already has as it is.
CopyPlainFileIfAbsent(fs, node, distFile, opts) ==
    IF ExistsSync(fs, distFile) THEN fs ELSE WriteFile(fs, distFile, node.content)

\* Any other file, 617-627.
CopyPlainFile(fs, node, distFile, opts) ==
    IF opts.templateParameters # Undefined /\ isMarkdown(distFile[Len(distFile)])
    THEN WriteFile(fs, distFile,
                   TextContent(replacePlaceholder(node.content.text,
                                                  opts.templateParameters)))
    ELSE WriteFile(fs, distFile, node.content)

\* One iteration of the loop at 589-628.
CopyChild(fs, node, to, opts) ==
    IF node.name \in AllSkipFiles(opts.skipFiles) THEN fs
    ELSE LET distFile == Append(to, RenameFile(node.name))
         IN  IF node.isDir
             THEN copyFolder(fs, node.children, distFile, RecursionOptions(opts))
             ELSE IF node.name = NmPackageJson
             THEN PlacePackageJson(fs, node, to, opts)
             ELSE CopyPlainFile(fs, node, distFile, opts)

CopyChildren(fs, children, to, opts) ==
    IF children = <<>> THEN fs
    ELSE CopyChildren(CopyChild(fs, Head(children), to, opts), Tail(children), to, opts)

\* copyFolder({from, to, ...opts}), 563-629: children are the children of from.
copyFolder(fs, children, to, opts) ==
    CopyChildren(MkdirRecursive(fs, to), children, to, opts)

(***************************************************************************)
(* collectAgentsFiles                                                      *)
(***************************************************************************)

\* A folder of the source side: one of the three base folders and a path below it.
Folder(base, path) == [base |-> base, path |-> path]

\* readAgentsFile(path.join(dir, 'AGENTS.md')), 685-690.
readAgentsFile(d, dir) ==
    IF /\ HasFolderAt(d[dir.base], dir.path)
       /\ HasChild(ChildrenAt(d[dir.base], dir.path), NmAgentsMd)
    THEN [kind |-> "string",
          str |-> Child(ChildrenAt(d[dir.base], dir.path), NmAgentsMd).content.text]
    ELSE Null

\* A collection that keeps every file it finds.
IsFound(agentsContent) == agentsContent # Null

\* if (agentsContent), 790.
IsCollected(agentsContent) == agentsContent # Null /\ agentsContent.str # <<>>

\* A collection that lists the fragments from the last folder to the first.
RECURSIVE collectAgentsFilesLastFirst(_, _)
collectAgentsFilesLastFirst(d, dirs) ==
    IF dirs = <<>> THEN <<>>
    ELSE collectAgentsFilesLastFirst(d, Tail(dirs))
             \o (IF IsCollected(readAgentsFile(d, Head(dirs)))
                 THEN <<readAgentsFile(d, Head(dirs)).str>> ELSE <<>>)

\* collectAgentsFiles(agentsMdSearchDirs), 785-796.
RECURSIVE collectAgentsFiles(_, _)
collectAgentsFiles(d, dirs) ==
    IF dirs = <<>> THEN <<>>
    ELSE (IF IsCollected(readAgentsFile(d, Head(dirs)))
          THEN <<readAgentsFile(d, Head(dirs)).str>> ELSE <<>>)
             \o collectAgentsFiles(d, Tail(dirs))

(***************************************************************************)
(* The folders create is run on                                            *)
(***************************************************************************)

TemplatePrefix == <<"t", "e", "m", "p", "l", "a", "t", "e", "-">>
NmCommon == <<"c", "o", "m", "m", "o", "n">>
NmVanilla == <<"v", "a", "n", "i", "l", "l", "a">>
NmVanillaTs == <<"v", "a", "n", "i", "l", "l", "a", "-", "t", "s">>
NmReactTs == <<"r", "e", "a", "c", "t", "-", "t", "s">>
NmSrc == <<"s", "r", "c">>
NmIndexJs == <<"i", "n", "d", "e", "x", ".", "j", "s">>
NmReadme == <<"R", "E", "A", "D", "M", "E", ".", "m", "d">>
NmEslintConfig == <<"e", "s", "l", "i", "n", "t", ".", "c", "o", "n", "f", "i", "g", ".", "m", "j", "s">>
NmPrettierrc == <<".", "p", "r", "e", "t", "t", "i", "e", "r", "r", "c">>
NmPackageManager == <<"p", "a", "c", "k", "a", "g", "e", "M", "a", "n", "a", "g", "e", "r">>
NmNpm == <<"n", "p", "m">>
NameTpl == <<"t", "p", "l">>
NameOld == <<"o", "l", "d">>
CmdCreate == <<"n", "p", "m", " ", "c", "r", "e", "a", "t", "e", " ", "x">>

LnH2E == <<"#", "#", " ", "E">>
LnZ == <<"Z">>

FragCommon == Join(<<LnH1A, LnX>>, "\n")
FragTemplate == Join(<<LnH2T, LnX>>, "\n")
FragBiome == Join(<<LnH2T, LnY>>, "\n")
FragEslint == Join(<<LnH2E, LnZ>>, "\n")
FragEslintVariant == Join(<<LnH2T, LnZ>>, "\n")
FragExtra == Join(<<LnH1A, LnY>>, "\n")
FragPreface == Join(<<LnY, LnH1A, LnX>>, "\n")
FragHeadingless == Join(<<LnH3S, LnX>>, "\n")

ReadmeText == PlaceholderOf(NmPackageManager) \o <<" ", "i">>

\* template-common: with a fragment, a file to rename, the folders always skipped at
\* the top and below src, and a markdown file; with an empty AGENTS.md; without one.
CommonFull ==
    <<FileNode(NmAgentsMd, TextContent(FragCommon)),
      FileNode(NmGitignore, TextContent(<<"g">>)),
      DirNode(NmNodeModules, <<FileNode(NmIndexJs, TextContent(<<"m">>))>>),
      DirNode(NmSrc,
              <<FileNode(NmIndexJs, TextContent(<<"c">>)),
                DirNode(NmDist, <<FileNode(NmIndexJs, TextContent(<<"d">>))>>),
                FileNode(NmReadme, TextContent(ReadmeText))>>)>>

CommonEmptyAgents ==
    <<FileNode(NmAgentsMd, TextContent(<<>>)),
      FileNode(NmReadme, TextContent(ReadmeText))>>

CommonBare == <<FileNode(NmIndexJs, TextContent(<<"c">>))>>

\* template-common whose AGENTS.md has text before its first heading, and one whose
\* AGENTS.md has no heading of depth 1 or 2.
CommonPreface == <<FileNode(NmAgentsMd, TextContent(FragPreface))>>
CommonHeadingless == <<FileNode(NmAgentsMd, TextContent(FragHeadingless))>>

CommonTrees == {CommonFull, CommonEmptyAgents, CommonBare, CommonPreface, CommonHeadingless}

TemplateFull ==
    <<FileNode(NmPackageJson,
               JsonContent(<<StrEntry("name", NameTpl),
                             ObjEntry("dependencies",
                                      <<Dep(KeyB, WorkspaceSentinel), Dep(KeyA, Val1)>>)>>)),
      FileNode(NmAgentsMd, TextContent(FragTemplate)),
      DirNode(NmSrc,
              <<FileNode(NmIndexJs, TextContent(<<"t">>)),
                FileNode(NmPackageJson,
                         JsonContent(<<StrEntry("name", NameTool),
                                       ObjEntry("dependencies",
                                                <<Dep(KeyA, WorkspaceSentinel)>>)>>))>>)>>

TemplateBare ==
    <<FileNode(NmPackageJson,
               JsonContent(<<StrEntry("name", NameTpl),
                             ObjEntry("devDependencies",
                                      <<Dep(KeyA, WorkspaceSentinel)>>)>>))>>

\* The folder root: template-common and, unless it is missing, template-vanilla.
RootTrees ==
    {<<DirNode(TemplatePrefix \o NmCommon, c), DirNode(TemplatePrefix \o NmVanilla, t)>> :
        c \in CommonTrees, t \in {TemplateFull, TemplateBare}}
      \cup {<<DirNode(TemplatePrefix \o NmCommon, c)>> : c \in CommonTrees}

\* The folder packageRoot: the overlays of the built-in tools.
PackageRootTree ==
    <<DirNode(TemplatePrefix \o NmBiome,
              <<FileNode(NmBiomeTemplate, TextContent(<<"b">>)),
                FileNode(NmPackageJson,
                         JsonContent(<<StrEntry("name", NameTool),
                                       ObjEntry("devDependencies",
                                                <<Dep(KeyScoped, Val2)>>)>>)),
                FileNode(NmAgentsMd, TextContent(FragBiome))>>),
      DirNode(TemplatePrefix \o NmEslint,
              <<FileNode(NmAgentsMd, TextContent(FragEslint)),
                DirNode(NmVanillaTs,
                        <<FileNode(NmEslintConfig, TextContent(<<"v">>)),
                          FileNode(NmPackageJson,
                                   JsonContent(<<ObjEntry("devDependencies",
                                                          <<Dep(KeyA, Val2)>>)>>)),
                          FileNode(NmAgentsMd, TextContent(FragEslintVariant))>>),
                DirNode(NmReactTs,
                        <<FileNode(NmEslintConfig, TextContent(<<"r">>)),
                          FileNode(NmPackageJson,
                                   JsonContent(<<ObjEntry("devDependencies",
                                                          <<Dep(KeyUpperB, Val2)>>)>>))>>)>>),
      DirNode(TemplatePrefix \o NmPrettier,
              <<FileNode(NmPrettierrc, TextContent(<<"p">>)),
                FileNode(NmPackageJson,
                         JsonContent(<<ObjEntry("devDependencies",
                                                <<Dep(KeyB, WorkspaceSentinel)>>)>>)),
                DirNode(NmSrc,
                        <<FileNode(NmIndexJs, TextContent(<<"p">>)),
                          FileNode(NmPackageJson,
                                   JsonContent(<<ObjEntry("devDependencies",
                                                          <<Dep(KeyB, Val2)>>)>>))>>)>>)>>

\* The folder an external tool's action registers.
ExtraTree == <<FileNode(NmAgentsMd, TextContent(FragExtra))>>

Disks == {[root |-> r, packageRoot |-> PackageRootTree, extra |-> ExtraTree] :
            r \in RootTrees}

\* The destination before the run: absent, holding .git only, holding files.
DestEmpty == MkdirRecursive(NoFolder, <<>>)
DestGitOnly == MkdirRecursive(NoFolder, <<NmDotGit>>)
DestNonEmpty ==
    WriteFile(WriteFile(MkdirRecursive(NoFolder, <<>>), <<NmPackageJson>>,
                        JsonContent(<<StrEntry("name", NameOld),
                                      ObjEntry("dependencies",
                                               <<Dep(KeyA, WorkspaceSentinel)>>)>>)),
              <<NmIndexJs>>, TextContent(<<"o">>))

DestFolders == {NoFolder, DestEmpty, DestGitOnly, DestNonEmpty}

\* The path of the destination folder, which create hands to actions and commands.
DistPath == [base |-> "dist", path |-> <<>>]

(***************************************************************************)
(* pkgFromUserAgent and runCommand                                         *)
(***************************************************************************)

NmPnpm == <<"p", "n", "p", "m">>
NmYarn == <<"y", "a", "r", "n">>
NmBun == <<"b", "u", "n">>
NmDeno == <<"d", "e", "n", "o">>
NmCnpm == <<"c", "n", "p", "m">>

\* pkgFromUserAgent(userAgent), 63-71.
pkgFromUserAgent(agent) ==
    IF agent = Undefined \/ agent.str = <<>> THEN Undefined
    ELSE LET pkgSpec == Split(agent.str, " ")[1]
             pkgSpecArr == Split(pkgSpec, "/")
         IN  [kind |-> "object",
              name |-> pkgSpecArr[1],
              version |-> IF Len(pkgSpecArr) >= 2
                          THEN [kind |-> "string", str |-> pkgSpecArr[2]]
                          ELSE Undefined]

\* pkgInfo ? pkgInfo.name : 'npm', 327.
PackageManagerOf(agent) ==
    IF pkgFromUserAgent(agent) = Undefined THEN NmNpm ELSE pkgFromUserAgent(agent).name

NpmCreate == <<"n", "p", "m", " ", "c", "r", "e", "a", "t", "e", " ">>
AtLatest == <<"@", "l", "a", "t", "e", "s", "t">>
DoubleSeparator == <<" ", "-", "-", " ", "-", "-">>
SingleSeparator == <<" ", "-", "-">>

\* createReplacements, 246-251.
createReplacements ==
    <<[key |-> NmBun, val |-> <<"b", "u", "n", " ", "c", "r", "e", "a", "t", "e", " ">>],
      [key |-> NmPnpm, val |-> <<"p", "n", "p", "m", " ", "c", "r", "e", "a", "t", "e", " ">>],
      [key |-> NmYarn, val |-> <<"y", "a", "r", "n", " ", "c", "r", "e", "a", "t", "e", " ">>],
      [key |-> NmDeno, val |-> <<"d", "e", "n", "o", " ", "r", "u", "n", " ", "-", "A", " ", "n", "p", "m", ":", "c", "r", "e", "a", "t", "e", "-">>]>>

\* createReplacements[packageManager], 252.
Replacement(manager) ==
    IF \E i \in 1..Len(createReplacements) : createReplacements[i].key = manager
    THEN [kind |-> "string",
          str |-> createReplacements[CHOOSE i \in 1..Len(createReplacements) :
                                         createReplacements[i].key = manager].val]
    ELSE Undefined

\* A replacement of every occurrence.
ReplaceEvery(str, pat, by) == ReplaceAll(str, pat, by)

\* s.replace(pat, rep) for a string pattern: the first occurrence only.
RECURSIVE ReplaceFirstFrom(_, _, _, _)
ReplaceFirstFrom(str, pat, by, i) ==
    IF i + Len(pat) - 1 > Len(str) THEN str
    ELSE IF IsPrefixAt(str, pat, i)
    THEN SubSeq(str, 1, i - 1) \o by \o SubSeq(str, i + Len(pat), Len(str))
    ELSE ReplaceFirstFrom(str, pat, by, i + 1)

ReplaceFirst(str, pat, by) == ReplaceFirstFrom(str, pat, by, 1)

\* 253-258.
WithReplacement(command, manager) ==
    IF Replacement(manager) # Undefined
    THEN ReplaceFirst(ReplaceFirst(command, NpmCreate, Replacement(manager).str),
                      DoubleSeparator, SingleSeparator)
    ELSE command

\* 260-262.
WithoutLatestForYarn(command, manager) ==
    IF manager = NmYarn THEN ReplaceFirst(command, AtLatest, <<>>) ELSE command

\* The command after 245-263.
RewrittenCommand(command, manager) ==
    IF StartsWith(command, NpmCreate)
    THEN WithoutLatestForYarn(WithReplacement(command, manager), manager)
    ELSE command

\* runCommand(command, cwd, packageManager), 243-270: the call of spawn.sync.
runCommand(command, cwd, manager) ==
    LET parts == Split(RewrittenCommand(command, manager), " ")
    IN  [kind |-> "spawn", bin |-> Head(parts), args |-> Tail(parts), cwd |-> cwd]

\* The external tools: none, one with an action that registers a folder and with a
\* command, one with a command that takes the name of a built-in tool, one with an
\* action that takes the name of biome.
CreateExtraTools ==
    {<<>>,
     <<[value |-> NmCustom, order |-> "post", action |-> "register",
        command |-> [kind |-> "string", str |-> CmdCreate]]>>,
     <<[value |-> NmEslint, order |-> "pre", action |-> "none",
        command |-> [kind |-> "string", str |-> CmdCreate]]>>,
     <<[value |-> NmBiome, order |-> "pre", action |-> "register", command |-> Null]>>}

CreateToolNames == {NmBiome, NmEslint, NmPrettier, NmCustom}

MaxTools == 2

\* argv.tools of a run that asks no question about tools.
CreateToolsOptions ==
    {[kind |-> "array", arr |-> a] :
        a \in UNION {[1..n -> CreateToolNames] : n \in 0..MaxTools}}

SkipFilesPool == {<<>>, <<NmAgentsMd>>, <<NmDotGitignore>>, <<NmSrc>>, <<NmReadme>>}

\* mapESLintTemplate: not given, or what it returns for the template.
EslintMappings ==
    {Undefined, Null, [kind |-> "string", str |-> NmReactTs]}

(***************************************************************************)
(* create as a state machine                                               *)
(*                                                                         *)
(* The runs are these: with a template folder, every destination, mapping, *)
(* tools option and set of external tools; with a skip list, a run into an *)
(* absent destination without external tools; without the template folder, *)
(* a run that asks for biome.                                              *)
(***************************************************************************)

Init ==
    /\ disk \in Disks
    /\ distFolder \in DestFolders
    /\ destAtStart = distFolder
    /\ toolCalls = <<>>
    /\ destBefore = distFolder
    /\ copyFrom = <<>>
    /\ override \in IF distFolder = DestNonEmpty THEN BOOLEAN ELSE {FALSE}
    /\ templateName = NmVanilla
    /\ packageName = [kind |-> "string", str |-> NameProj]
    /\ packageManager = NmNpm
    /\ createVersion = [kind |-> "string", str |-> Ver123]
    /\ skipFiles \in IF distFolder = NoFolder /\ Len(disk.root) = 2
                      THEN SkipFilesPool ELSE {<<>>}
    /\ eslintMapping \in IF Len(disk.root) = 2 THEN EslintMappings ELSE {Undefined}
    /\ agentsMdSearchDirs = <<>>
    /\ toolIndex = 0
    /\ agentsWritten = FALSE
    /\ createLog = <<>>
    /\ createPc = "guard"
    /\ toolsOption \in IF Len(disk.root) = 2 THEN CreateToolsOptions
                        ELSE {[kind |-> "array", arr |-> <<NmBiome>>]}
    /\ dirAndTemplate = TRUE
    /\ extraTools \in IF skipFiles = <<>> /\ Len(disk.root) = 2
                       THEN CreateExtraTools ELSE {<<>>}
    /\ parsedTools = Null
    /\ tools = <<>>
    /\ toolsPrompted = FALSE
    /\ toolsPc = "ready"
    /\ AgentsIdle
    /\ PkgIdle
    /\ UtilIdle

Logged(step, tool) == Append(createLog, [step |-> step, tool |-> tool])

\* The arguments of create, which no step changes.
CreateArgs == <<disk, destAtStart, override, templateName, packageName, packageManager,
                createVersion, skipFiles, eslintMapping, toolsOption, dirAndTemplate,
                extraTools, toolsPrompted, pkgVars, utilVars>>

\* What a step that calls no external tool leaves as it was.
CreateInputs == <<CreateArgs, toolCalls>>

\* A guard that never asks.
NoAnswerNeeded == FALSE

\* !argv.override && fs.existsSync(distFolder) && !isEmptyDir(distFolder), 357.
NeedsOverrideAnswer ==
    ~override /\ ExistsSync(distFolder, <<>>) /\ ~isEmptyDir(distFolder, <<>>)

\* 357-371: no question is asked.
CreateGuardPass ==
    /\ createPc = "guard"
    /\ ~NeedsOverrideAnswer
    /\ createPc' = "resolve"
    /\ createLog' = Logged("guard", <<>>)
    /\ destBefore' = distFolder
    /\ UNCHANGED <<CreateInputs, agentsVars, parsedTools, tools, toolsPc, distFolder,
                   copyFrom, agentsMdSearchDirs, toolIndex, agentsWritten>>

\* 357-371: the user answers 'yes'.
CreateGuardContinue ==
    /\ createPc = "guard"
    /\ NeedsOverrideAnswer
    /\ createPc' = "resolve"
    /\ createLog' = Logged("override", <<>>)
    /\ destBefore' = distFolder
    /\ UNCHANGED <<CreateInputs, agentsVars, parsedTools, tools, toolsPc, distFolder,
                   copyFrom, agentsMdSearchDirs, toolIndex, agentsWritten>>

\* 357-371: the user answers 'no' or cancels, and the process exits with 0.
CreateGuardAbort ==
    /\ createPc = "guard"
    /\ NeedsOverrideAnswer
    /\ createPc' = "exited"
    /\ createLog' = Logged("abort", <<>>)
    /\ destBefore' = distFolder
    /\ UNCHANGED <<CreateInputs, agentsVars, parsedTools, tools, toolsPc, distFolder,
                   copyFrom, agentsMdSearchDirs, toolIndex, agentsWritten>>

\* 373-374: getTemplateName, then getTools on a run that asks no question (134-147).
CreateResolve ==
    /\ createPc = "resolve"
    /\ parseToolsOption(toolsOption) = Null => dirAndTemplate
    /\ parsedTools' = parseToolsOption(toolsOption)
    /\ tools' = IF parseToolsOption(toolsOption) # Null
                THEN FilterKnownTools(parseToolsOption(toolsOption).value, extraTools)
                ELSE <<>>
    /\ toolsPc' = "resolved"
    /\ createPc' = "check"
    /\ createLog' = Logged("resolve", <<>>)
    /\ destBefore' = distFolder
    /\ UNCHANGED <<CreateInputs, agentsVars, distFolder, copyFrom, agentsMdSearchDirs,
                   toolIndex, agentsWritten>>

srcFolder == Folder("root", <<TemplatePrefix \o templateName>>)
commonFolder == Folder("root", <<TemplatePrefix \o NmCommon>>)

\* A test that finds every folder.
AnyFolderExists(dir) == TRUE

FolderExists(dir) == HasFolderAt(disk[dir.base], dir.path)
FolderChildren(dir) == ChildrenAt(disk[dir.base], dir.path)

\* templateParameters, 328.
TemplateParameters ==
    [kind |-> "object", obj |-> <<[key |-> NmPackageManager, val |-> packageManager]>>]

CopyOptions(name, merge) ==
    [version |-> createVersion,
     packageName |-> name,
     templateParameters |-> TemplateParameters,
     isMergePackageJson |-> merge,
     skipFiles |-> skipFiles]

\* 379-381: the template folder is missing and create throws.
CreateTemplateMissing ==
    /\ createPc = "check"
    /\ ~FolderExists(srcFolder)
    /\ createPc' = "failed"
    /\ createLog' = Logged("throw", <<>>)
    /\ destBefore' = distFolder
    /\ UNCHANGED <<CreateInputs, agentsVars, parsedTools, tools, toolsPc, distFolder,
                   copyFrom, agentsMdSearchDirs, toolIndex, agentsWritten>>

\* 379-389: the template folder exists and template-common is copied.
CreateCopyCommon ==
    /\ createPc = "check"
    /\ FolderExists(srcFolder)
    /\ distFolder' = copyFolder(distFolder, FolderChildren(commonFolder), <<>>,
                                CopyOptions(Undefined, FALSE))
    /\ destBefore' = distFolder
    /\ copyFrom' = FolderChildren(commonFolder)
    /\ createPc' = "template"
    /\ createLog' = Logged("common", <<>>)
    /\ UNCHANGED <<CreateInputs, agentsVars, parsedTools, tools, toolsPc,
                   agentsMdSearchDirs, toolIndex, agentsWritten>>

\* 390-400: the template is copied and the search list starts.
CreateCopyTemplate ==
    /\ createPc = "template"
    /\ distFolder' = copyFolder(distFolder, FolderChildren(srcFolder), <<>>,
                                CopyOptions(packageName, FALSE))
    /\ destBefore' = distFolder
    /\ copyFrom' = FolderChildren(srcFolder)
    /\ agentsMdSearchDirs' = <<commonFolder, srcFolder>>
    /\ toolIndex' = 1
    /\ createPc' = "tools"
    /\ createLog' = Logged("template", <<>>)
    /\ UNCHANGED <<CreateInputs, agentsVars, parsedTools, tools, toolsPc, agentsWritten>>

\* A loop that takes the next step while an action is still running.
InToolsLoopWhileAwaiting == createPc \in {"tools", "await"} /\ toolIndex <= Len(tools)

InToolsLoop == createPc = "tools" /\ toolIndex <= Len(tools)

\* A match that leaves the built-in names to the built-in tools.
IsExternalUnlessBuiltin(tool) ==
    /\ tool \notin Range(BUILTIN_TOOLS)
    /\ \E i \in 1..Len(extraTools) : extraTools[i].value = tool

IsExternal(tool) == \E i \in 1..Len(extraTools) : extraTools[i].value = tool

\* extraTools.find((extraTool) => extraTool.value === tool), 405-407.
MatchedTool(tool) ==
    extraTools[CHOOSE i \in 1..Len(extraTools) :
                 /\ extraTools[i].value = tool
                 /\ \A j \in 1..(i - 1) : extraTools[j].value # tool]

ExtraFolder == Folder("extra", <<>>)

\* 409-416: an external tool's action is called, and create awaits it.
CreateToolAction ==
    /\ InToolsLoop
    /\ IsExternal(tools[toolIndex])
    /\ MatchedTool(tools[toolIndex]).action # "none"
    /\ toolCalls' = Append(toolCalls,
                           [kind |-> "action",
                            tool |-> tools[toolIndex],
                            templateName |-> templateName,
                            distFolder |-> DistPath,
                            addAgentsMdSearchDirs |-> "agentsMdSearchDirs.push",
                            at |-> Len(createLog) + 1])
    /\ createLog' = Logged("action", tools[toolIndex])
    /\ createPc' = "await"
    /\ destBefore' = distFolder
    /\ copyFrom' = <<>>
    /\ UNCHANGED <<CreateArgs, agentsVars, parsedTools, tools, toolsPc, distFolder,
                   agentsMdSearchDirs, toolIndex, agentsWritten>>

\* The exit statuses of a command.
ExitStatuses == {0, 1}

\* A runCommand that throws when the command fails.
ThrowsOnFailure(status) == status # 0

\* 265-269: spawn.sync returns the status and runCommand drops it.
RunCommandThrows(status) == FALSE

\* The loop stands where a tool's command is run: its action has settled, or it has
\* none.
AtCommand ==
    IF createPc = "await" THEN TRUE
    ELSE /\ InToolsLoop
         /\ IsExternal(tools[toolIndex])
         /\ MatchedTool(tools[toolIndex]).action = "none"

\* 409-421: the action, if any, has settled, having registered its folder through
\* the callback; the command, if any, is run and ends with some status; continue.
CreateToolCommand ==
    /\ AtCommand
    /\ agentsMdSearchDirs' =
         IF createPc = "await" /\ MatchedTool(tools[toolIndex]).action = "register"
         THEN Append(agentsMdSearchDirs, ExtraFolder)
         ELSE agentsMdSearchDirs
    /\ \E status \in IF MatchedTool(tools[toolIndex]).command # Null
                     THEN ExitStatuses ELSE {0} :
        IF MatchedTool(tools[toolIndex]).command # Null
        THEN /\ toolCalls' = Append(toolCalls,
                                    [kind |-> "command",
                                     tool |-> tools[toolIndex],
                                     spawn |-> runCommand(
                                                   MatchedTool(tools[toolIndex]).command.str,
                                                   DistPath, packageManager),
                                     status |-> status,
                                     at |-> Len(createLog) + 1])
             /\ createLog' = Logged("command", tools[toolIndex])
             /\ createPc' = IF RunCommandThrows(status) THEN "failed" ELSE "tools"
        ELSE /\ toolCalls' = toolCalls
             /\ createLog' = createLog
             /\ createPc' = "tools"
    /\ toolIndex' = toolIndex + 1
    /\ destBefore' = distFolder
    /\ copyFrom' = <<>>
    /\ UNCHANGED <<CreateArgs, agentsVars, parsedTools, tools, toolsPc, distFolder,
                   agentsWritten>>

toolFolder(tool) == Folder("packageRoot", <<TemplatePrefix \o tool>>)

\* A mapping whose null falls back to 'vanilla-ts'.
EslintTemplateNameOrDefault(mapping) ==
    IF mapping.kind = "string" THEN mapping ELSE [kind |-> "string", str |-> NmVanillaTs]

\* eslintTemplateName, 428-432.
EslintTemplateName(mapping) ==
    IF mapping = Undefined THEN [kind |-> "string", str |-> NmVanillaTs] ELSE mapping

\* 427-436: eslint has no template for this one, and the loop goes on.
CreateToolEslintSkipped ==
    /\ InToolsLoop
    /\ ~IsExternal(tools[toolIndex])
    /\ tools[toolIndex] = NmEslint
    /\ EslintTemplateName(eslintMapping) = Null
    /\ toolIndex' = toolIndex + 1
    /\ createLog' = Logged("eslintSkipped", NmEslint)
    /\ destBefore' = distFolder
    /\ copyFrom' = <<>>
    /\ UNCHANGED <<CreateInputs, agentsVars, parsedTools, tools, toolsPc, distFolder,
                   agentsMdSearchDirs, agentsWritten, createPc>>

subFolder == Folder("packageRoot",
                    <<TemplatePrefix \o NmEslint, EslintTemplateName(eslintMapping).str>>)

\* 427-451: the eslint template of the mapped name is copied.
CreateToolEslint ==
    /\ InToolsLoop
    /\ ~IsExternal(tools[toolIndex])
    /\ tools[toolIndex] = NmEslint
    /\ EslintTemplateName(eslintMapping) # Null
    /\ distFolder' = copyFolder(distFolder, FolderChildren(subFolder), <<>>,
                                CopyOptions(Undefined, TRUE))
    /\ destBefore' = distFolder
    /\ copyFrom' = FolderChildren(subFolder)
    /\ agentsMdSearchDirs' = agentsMdSearchDirs \o <<toolFolder(NmEslint), subFolder>>
    /\ toolIndex' = toolIndex + 1
    /\ createLog' = Logged("eslint", NmEslint)
    /\ UNCHANGED <<CreateInputs, agentsVars, parsedTools, tools, toolsPc, agentsWritten,
                   createPc>>

\* 453-464: another built-in tool's folder is copied.
CreateToolBuiltin ==
    /\ InToolsLoop
    /\ ~IsExternal(tools[toolIndex])
    /\ tools[toolIndex] # NmEslint
    /\ distFolder' = copyFolder(distFolder, FolderChildren(toolFolder(tools[toolIndex])),
                                <<>>, CopyOptions(Undefined, TRUE))
    /\ destBefore' = distFolder
    /\ copyFrom' = FolderChildren(toolFolder(tools[toolIndex]))
    /\ agentsMdSearchDirs' = Append(agentsMdSearchDirs, toolFolder(tools[toolIndex]))
    /\ IF tools[toolIndex] = NmBiome
       THEN createPc' = "rename" /\ toolIndex' = toolIndex
       ELSE createPc' = "tools" /\ toolIndex' = toolIndex + 1
    /\ createLog' = Logged("builtin", tools[toolIndex])
    /\ UNCHANGED <<CreateInputs, agentsVars, parsedTools, tools, toolsPc, agentsWritten>>

\* fs.promises.rename(from, to) inside the destination.
Rename(fs, from, to) ==
    [path \in (DOMAIN fs \ {from}) \cup {to} |-> IF path = to THEN fs[from] ELSE fs[path]]

\* 464-469: biome.json.template becomes biome.json; without the file create throws.
CreateBiomeRename ==
    /\ createPc = "rename"
    /\ IF ExistsSync(distFolder, <<NmBiomeTemplate>>)
       THEN /\ distFolder' = Rename(distFolder, <<NmBiomeTemplate>>, <<NmBiomeJson>>)
            /\ toolIndex' = toolIndex + 1
            /\ createPc' = "tools"
            /\ createLog' = Logged("rename", NmBiome)
       ELSE /\ distFolder' = distFolder
            /\ toolIndex' = toolIndex
            /\ createPc' = "failed"
            /\ createLog' = Logged("throw", NmBiome)
    /\ destBefore' = distFolder
    /\ copyFrom' = <<>>
    /\ UNCHANGED <<CreateInputs, agentsVars, parsedTools, tools, toolsPc,
                   agentsMdSearchDirs, agentsWritten>>

\* A loop that may be left with tools still to come.
LoopLeftAnywhere == TRUE

\* for (const tool of tools), 402: the loop has gone through every tool.
LoopFinished == toolIndex > Len(tools)

\* 472-480: the fragments are collected and, when there is one, merged and written.
CreateSynthesize ==
    /\ createPc = "tools"
    /\ LoopFinished
    /\ agentsFiles' = collectAgentsFiles(disk, agentsMdSearchDirs)
    /\ IF Len(collectAgentsFiles(disk, agentsMdSearchDirs)) > 0
       THEN /\ allSections' = MergeFiles(<<>>, collectAgentsFiles(disk, agentsMdSearchDirs))
            /\ mergedAgents' = mergeAgentsFiles(collectAgentsFiles(disk, agentsMdSearchDirs))
            /\ agentsPc' = "merged"
            /\ distFolder' =
                 WriteFile(distFolder, <<NmAgentsMd>>,
                           TextContent(replacePlaceholder(
                                           mergeAgentsFiles(
                                               collectAgentsFiles(disk, agentsMdSearchDirs)),
                                           TemplateParameters)
                                         \o <<"\n">>))
            /\ agentsWritten' = TRUE
       ELSE UNCHANGED <<allSections, mergedAgents, agentsPc, distFolder, agentsWritten>>
    /\ destBefore' = distFolder
    /\ copyFrom' = <<>>
    /\ createPc' = "report"
    /\ createLog' = Logged("synthesis", <<>>)
    /\ UNCHANGED <<CreateInputs, parsedTools, tools, toolsPc, agentsMdSearchDirs,
                   toolIndex>>

\* 482-495: the next steps are shown and create returns.
CreateReport ==
    /\ createPc = "report"
    /\ createPc' = "done"
    /\ createLog' = Logged("report", <<>>)
    /\ destBefore' = distFolder
    /\ UNCHANGED <<CreateInputs, agentsVars, parsedTools, tools, toolsPc, distFolder,
                   copyFrom, agentsMdSearchDirs, toolIndex, agentsWritten>>

Next ==
    \/ CreateGuardPass
    \/ CreateGuardContinue
    \/ CreateGuardAbort
    \/ CreateResolve
    \/ CreateTemplateMissing
    \/ CreateCopyCommon
    \/ CreateCopyTemplate
    \/ CreateToolAction
    \/ CreateToolCommand
    \/ CreateToolEslintSkipped
    \/ CreateToolEslint
    \/ CreateToolBuiltin
    \/ CreateBiomeRename
    \/ CreateSynthesize
    \/ CreateReport

Spec == Init /\ [][Next]_vars

(***************************************************************************)
(* Claims about create and copyFolder                                      *)
(***************************************************************************)

LastStep == IF createLog = <<>> THEN "none" ELSE createLog[Len(createLog)].step

\* The synthesis step is over.
Synthesized == createPc \in {"report", "done"}

\* Some searched folder holds an AGENTS.md, whatever is in it.
SomeFragmentFileFound ==
    \E i \in 1..Len(agentsMdSearchDirs) :
        readAgentsFile(disk, agentsMdSearchDirs[i]) # Null

\* Some searched folder holds an AGENTS.md that is not empty.
SomeFragmentWithText ==
    \E i \in 1..Len(agentsMdSearchDirs) :
        /\ readAgentsFile(disk, agentsMdSearchDirs[i]) # Null
        /\ Len(readAgentsFile(disk, agentsMdSearchDirs[i]).str) > 0

\* C3 as stated: after the synthesis step, create has written AGENTS.md exactly
\* when an AGENTS.md file was found in one of the searched folders.
C3_WrittenIffFragmentFound ==
    Synthesized => (agentsWritten <=> SomeFragmentFileFound)

\* C3: create writes the merged AGENTS.md in the synthesis step only, and exactly
\* when one of the searched folders holds an AGENTS.md that is not empty; when none
\* does, the synthesis step leaves the destination as it was.
C3_WrittenIffFragmentHasText ==
    /\ Synthesized => (agentsWritten <=> SomeFragmentWithText)
    /\ ~Synthesized => ~agentsWritten
    /\ agentsWritten => ExistsSync(distFolder, <<NmAgentsMd>>)
    /\ (LastStep = "synthesis" /\ ~agentsWritten) => distFolder = destBefore

\* C3's case: the run is over, the only AGENTS.md found in the searched folders was
\* empty, and nothing was written.
C3_Witness ==
    /\ createPc = "done"
    /\ SomeFragmentFileFound
    /\ ~SomeFragmentWithText
    /\ ~agentsWritten

CopySteps == {"common", "template", "eslint", "builtin"}

\* The latest step was a call of copyFolder.
JustCopied == LastStep \in CopySteps

\* The paths the latest step created in the destination.
Created == DOMAIN distFolder \ DOMAIN destBefore

\* The paths the latest step created or gave another content.
Touched ==
    {p \in DOMAIN distFolder : p \notin DOMAIN destBefore \/ distFolder[p] # destBefore[p]}

SkippedNames == {NmNodeModules, NmDist} \cup Range(skipFiles)

HasSkippedSegment(path) == \E i \in 1..Len(path) : path[i] \in SkippedNames

\* Every path below a source folder.
RECURSIVE SourcePaths(_)
SourcePaths(children) ==
    UNION {{<<children[i].name>>}
             \cup {<<children[i].name>> \o q : q \in SourcePaths(children[i].children)} :
           i \in 1..Len(children)}

\* Where a source path lands: every segment named gitignore gets its dot.
Landed(path) ==
    [i \in 1..Len(path) |-> IF path[i] = NmGitignore THEN NmDotGitignore ELSE path[i]]

\* C4 as stated: after copyFolder, no path it created in the destination has a
\* segment equal to 'node_modules', 'dist' or a caller-supplied skip name.
C4_NoCreatedPathHasSkippedSegment ==
    JustCopied => \A p \in Created : ~HasSkippedSegment(p)

\* C4: copyFolder copies nothing that lies, at any depth of the source folder, at
\* or below a child named 'node_modules', 'dist' or a caller-supplied skip name, and
\* copies everything else: each path it created or changed is where a source path
\* without such a segment lands, and a created path has a skipped name as a segment
\* only where that name is '.gitignore', written for a source child 'gitignore'.
C4_SkippedSourceNamesNeverCopied ==
    JustCopied =>
        /\ \A p \in Touched \ {<<>>} :
            \E q \in SourcePaths(copyFrom) : ~HasSkippedSegment(q) /\ Landed(q) = p
        /\ \A q \in SourcePaths(copyFrom) :
            ~HasSkippedSegment(q) => ExistsSync(distFolder, Landed(q))
        /\ \A p \in Created :
            \A i \in 1..Len(p) :
                p[i] \in SkippedNames =>
                    /\ p[i] = NmDotGitignore
                    /\ \E q \in SourcePaths(copyFrom) :
                        ~HasSkippedSegment(q) /\ Landed(q) = p /\ q[i] = NmGitignore

\* C4's case: template-common, with node_modules at its top, dist below src and a
\* file gitignore, was copied with '.gitignore' in the skip list; the two folders
\* were left out at both depths and .gitignore was created all the same.
C4_Witness ==
    /\ LastStep = "common"
    /\ skipFiles = <<NmDotGitignore>>
    /\ HasChild(copyFrom, NmNodeModules)
    /\ <<NmSrc, NmDist>> \in SourcePaths(copyFrom)
    /\ <<NmDotGitignore>> \in Created
    /\ <<NmSrc, NmIndexJs>> \in Created
    /\ ~ExistsSync(distFolder, <<NmNodeModules>>)
    /\ ~ExistsSync(distFolder, <<NmSrc, NmDist>>)

IsEslintFolder(dir) ==
    dir.base = "packageRoot" /\ dir.path # <<>> /\ dir.path[1] = TemplatePrefix \o NmEslint

\* C5: when eslint is selected as a built-in tool and mapESLintTemplate returns
\* null, the eslint step leaves the destination as it was, no ESLint folder enters
\* the search list, neither the destination nor the merged text holds anything of
\* ESLint's, and every other selected tool is still processed.
C5_NullMappingSkipsEslint ==
    (eslintMapping = Null /\ ~IsExternal(NmEslint) /\ NmEslint \in Range(tools)) =>
        /\ \A i \in 1..Len(agentsMdSearchDirs) : ~IsEslintFolder(agentsMdSearchDirs[i])
        /\ ~ExistsSync(distFolder, <<NmEslintConfig>>)
        /\ ~Includes(mergedAgents, LnZ)
        /\ ExistsSync(distFolder, <<NmAgentsMd>>)
             => ~Includes(distFolder[<<NmAgentsMd>>].content.text, LnZ)
        /\ LastStep = "eslintSkipped" => distFolder = destBefore /\ createPc = "tools"
        /\ Synthesized =>
            /\ toolIndex = Len(tools) + 1
            /\ \A k \in 1..Len(tools) :
                (tools[k] \in {NmBiome, NmPrettier} /\ ~IsExternal(tools[k])) =>
                    /\ \E i \in 1..Len(agentsMdSearchDirs) :
                        agentsMdSearchDirs[i]
                            = Folder("packageRoot", <<TemplatePrefix \o tools[k]>>)
                    /\ tools[k] = NmBiome => ExistsSync(distFolder, <<NmBiomeJson>>)
                    /\ tools[k] = NmPrettier => ExistsSync(distFolder, <<NmPrettierrc>>)

\* C5's case: eslint, mapped to null, came before biome; the run is over, biome's
\* files are in the destination and ESLint's are not.
C5_Witness ==
    /\ createPc = "done"
    /\ eslintMapping = Null
    /\ tools = <<NmEslint, NmBiome>>
    /\ ~IsExternal(NmEslint)
    /\ \E i \in 1..Len(createLog) : createLog[i].step = "eslintSkipped"
    /\ ExistsSync(distFolder, <<NmBiomeJson>>)
    /\ ~ExistsSync(distFolder, <<NmEslintConfig>>)
    /\ agentsWritten

(***************************************************************************)
(* formatProjectName                                                       *)
(***************************************************************************)

\* formatted.replace(/\/+$/g, ''), 54.
RECURSIVE StripTrailingSlashes(_)
StripTrailingSlashes(str) ==
    IF str # <<>> /\ str[Len(str)] = "/"
    THEN StripTrailingSlashes(SubSeq(str, 1, Len(str) - 1))
    ELSE str

\* The loop of path.basename(path) of node:path on POSIX, from the last character
\* down: [start, end, matchedSlash] after the characters i..Len(path).
RECURSIVE BasenameScan(_, _, _)
BasenameScan(path, i, st) ==
    IF i = 0 THEN st
    ELSE IF path[i] = "/"
    THEN IF ~st.matchedSlash THEN [st EXCEPT !.start = i + 1]
         ELSE BasenameScan(path, i - 1, st)
    ELSE IF st.end = 0
    THEN BasenameScan(path, i - 1, [st EXCEPT !.matchedSlash = FALSE, !.end = i])
    ELSE BasenameScan(path, i - 1, st)

\* A basename that is the whole path.
WholePath(path) == path

\* path.basename(path), 58.
basename(path) ==
    LET st == BasenameScan(path, Len(path), [start |-> 1, end |-> 0, matchedSlash |-> TRUE])
    IN  IF st.end = 0 THEN <<>> ELSE SubSeq(path, st.start, st.end)

\* formatProjectName(input), 53-61.
formatProjectName(input) ==
    LET formatted == StripTrailingSlashes(Trim(input))
    IN  [kind |-> "object",
         packageName |-> IF StartsWith(formatted, <<"@">>) THEN formatted
                         ELSE basename(formatted),
         targetDir |-> formatted]

FormatAlphabet == {"a", "b", "/", "@", " "}

MaxNameLen == 5

\* Every non-empty text of at most MaxNameLen characters.
FormatInputs == UNION {[1..n -> FormatAlphabet] : n \in 1..MaxNameLen}

InitFormat ==
    /\ formatInput \in FormatInputs
    /\ formatResult = Null
    /\ formatPc = "ready"
    /\ AgentsIdle
    /\ ToolsIdle
    /\ PkgIdle
    /\ CreateIdle
    /\ RunIdle
    /\ CopyIdle

\* formatProjectName(projectName), 350.
FormatProjectName ==
    /\ formatPc = "ready"
    /\ formatResult' = formatProjectName(formatInput)
    /\ formatPc' = "returned"
    /\ UNCHANGED <<formatInput, agentsVars, toolsVars, pkgVars, createVars, runVars,
                   copyVars>>

NextFormat == FormatProjectName

SpecFormat == InitFormat /\ [][NextFormat]_vars

\* text is some whitespace, then core, then some whitespace, and core neither
\* starts nor ends with whitespace.
IsTrimOf(core, text) ==
    /\ \E i \in 0..Len(text) :
        /\ i + Len(core) <= Len(text)
        /\ SubSeq(text, i + 1, i + Len(core)) = core
        /\ \A k \in (1..i) \cup ((i + Len(core) + 1)..Len(text)) : IsWhitespace(text[k])
    /\ core # <<>> => ~IsWhitespace(core[1]) /\ ~IsWhitespace(core[Len(core)])

\* text is stem followed by slashes only, and stem does not end with a slash.
IsSlashStripOf(stem, text) ==
    /\ Len(stem) <= Len(text)
    /\ SubSeq(text, 1, Len(stem)) = stem
    /\ \A k \in (Len(stem) + 1)..Len(text) : text[k] = "/"
    /\ stem # <<>> => stem[Len(stem)] # "/"

\* segment is what follows the last slash of text, the whole of it without one.
IsFinalSegmentOf(segment, text) ==
    /\ Len(segment) <= Len(text)
    /\ SubSeq(text, Len(text) - Len(segment) + 1, Len(text)) = segment
    /\ \A k \in 1..Len(segment) : segment[k] # "/"
    /\ Len(segment) < Len(text) => text[Len(text) - Len(segment)] = "/"

\* C11: for every non-empty input, targetDir is the input trimmed and then stripped
\* of its trailing slashes, and packageName is that whole text when it starts with
\* '@' and its final '/'-delimited segment otherwise.
C11_TargetDirAndPackageName ==
    formatPc = "returned" =>
        /\ \E core \in {SubSeq(formatInput, i, j) : i \in 1..(Len(formatInput) + 1),
                                                    j \in 0..Len(formatInput)} :
            /\ IsTrimOf(core, formatInput)
            /\ IsSlashStripOf(formatResult.targetDir, core)
        /\ IF formatResult.targetDir # <<>> /\ formatResult.targetDir[1] = "@"
           THEN formatResult.packageName = formatResult.targetDir
           ELSE IsFinalSegmentOf(formatResult.packageName, formatResult.targetDir)

\* C11's case: a padded path of two segments with a trailing slash gave the path
\* without padding and slash, and its last segment as the name.
C11_Witness ==
    /\ formatPc = "returned"
    /\ formatInput = <<" ", "a", "/", "b", "/">>
    /\ formatResult.targetDir = <<"a", "/", "b">>
    /\ formatResult.packageName = <<"b">>

(***************************************************************************)
(* Overlay precedence                                                      *)
(***************************************************************************)

\* The source node at a path below a source folder.
NodeAt(children, path) ==
    Child(ChildrenAt(children, SubSeq(path, 1, Len(path) - 1)), path[Len(path)])

\* The files below the source folder of the latest copy that copyFolder does not skip.
CopiedSourceFiles ==
    {q \in SourcePaths(copyFrom) : ~HasSkippedSegment(q) /\ ~NodeAt(copyFrom, q).isDir}

\* The latest copy was one of a tool's folder, made with isMergePackageJson, 439-460.
CopiedWithMerge == LastStep \in {"eslint", "builtin"}

\* The latest copy merged the package.json at q: the one at the top of a folder
\* copied with isMergePackageJson, onto a file the destination had.
WasMerged(q) ==
    /\ CopiedWithMerge
    /\ q = <<NmPackageJson>>
    /\ ExistsSync(destBefore, q)

TemplateMissing == ~HasFolderAt(disk.root, <<TemplatePrefix \o templateName>>)

\* create threw and its promise is rejected.
Failed == createPc = "failed"

\* C13: when template-<templateName> does not exist, create fails with an error,
\* and at that moment nothing has been written to or created in the destination:
\* on such a run the destination is at every step what it was when create was
\* called, no step past the check is taken, and the check ends the run by a throw.
C13_MissingTemplateFailsBeforeAnyWrite ==
    (createPc # "idle" /\ TemplateMissing) =>
        /\ distFolder = destAtStart
        /\ createPc \in {"guard", "resolve", "check", "failed", "exited"}
        /\ Failed <=> LastStep = "throw"
        /\ \A i \in 1..Len(createLog) :
            createLog[i].step \in {"guard", "override", "abort", "resolve", "throw"}

\* C13's case: create threw for a missing template on a destination that did not
\* exist, and it still does not.
C13_Witness ==
    /\ TemplateMissing
    /\ Failed
    /\ LastStep = "throw"
    /\ destAtStart = NoFolder
    /\ ~ExistsSync(distFolder, <<>>)

(***************************************************************************)
(* The guard on the destination                                            *)
(***************************************************************************)

\* The names at the top of the destination create was called on.
TopNamesAtStart == {p[1] : p \in {q \in DOMAIN destAtStart : Len(q) = 1}}

\* The destination exists, holds something other than a lone '.git', and --override
\* was not given.
GuardCondition ==
    /\ <<>> \in DOMAIN destAtStart
    /\ TopNamesAtStart # {}
    /\ TopNamesAtStart # {NmDotGit}
    /\ ~override

\* The select of 358-366 was shown.
Asked == createLog # <<>> /\ createLog[1].step \in {"override", "abort"}

\* The status the process exits with at process.exit(0), 27; a rejected promise is
\* a status of 1, a run that has not ended has none.
ExitStatus ==
    CASE createPc = "exited" -> [kind |-> "number", num |-> 0]
      [] createPc = "done" -> [kind |-> "number", num |-> 0]
      [] createPc = "failed" -> [kind |-> "number", num |-> 1]
      [] OTHER -> [kind |-> "none", num |-> 0]

\* C14: the choice between overriding and aborting is asked exactly when the
\* destination exists, contains something other than a lone '.git', and override
\* was not requested; on an abort the process exits with status 0 and no file has
\* been written; otherwise the composition proceeds, without a question.
C14_GuardAsksExactlyWhenNeeded ==
    createLog # <<>> =>
        /\ Asked <=> GuardCondition
        /\ createLog[1].step \in {"guard", "override", "abort"}
        /\ createLog[1].step = "abort" =>
            /\ createPc = "exited"
            /\ ExitStatus = [kind |-> "number", num |-> 0]
            /\ Len(createLog) = 1
            /\ distFolder = destAtStart
        /\ createLog[1].step # "abort" =>
            /\ createPc # "exited"
            /\ \A i \in 2..Len(createLog) :
                createLog[i].step \notin {"guard", "override", "abort"}

\* C14's cases are three states; this one is the abort: the destination held files,
\* the question was asked, the answer was 'no', and the process exited with 0.
C14_Witness ==
    /\ destAtStart = DestNonEmpty
    /\ ~override
    /\ Asked
    /\ LastStep = "abort"
    /\ createPc = "exited"
    /\ distFolder = DestNonEmpty

\* A destination with a lone '.git' is composed into without a question.
C14_GitOnlyNotAsked ==
    /\ destAtStart = DestGitOnly
    /\ ~Asked
    /\ createPc = "done"

(***************************************************************************)
(* The order of the steps                                                  *)
(***************************************************************************)

\* The steps of the loop over the tools.
ToolSteps == {"action", "command", "eslint", "eslintSkipped", "builtin", "rename"}

\* The positions of a step in the log.
StepPositions(step) == {i \in 1..Len(createLog) : createLog[i].step = step}

ToolPositions == {i \in 1..Len(createLog) : createLog[i].step \in ToolSteps}

\* A tool leaves two entries when its action and its command both ran, or when the
\* biome folder was copied and its file renamed.
IsPairOfOneTool(first, second) ==
    /\ first.tool = second.tool
    /\ <<first.step, second.step>> \in {<<"action", "command">>, <<"builtin", "rename">>}

\* entries are what the tools of selected leave, tool by tool, in that order.
RECURSIVE OneToolAtATime(_, _)
OneToolAtATime(entries, selected) ==
    IF selected = <<>> THEN entries = <<>>
    ELSE /\ entries # <<>>
         /\ entries[1].tool = selected[1]
         /\ IF Len(entries) >= 2 /\ IsPairOfOneTool(entries[1], entries[2])
            THEN OneToolAtATime(Tail(Tail(entries)), Tail(selected))
            ELSE OneToolAtATime(Tail(entries), Tail(selected))

\* C15: in every successful run the steps occur in this order: common layer,
\* template layer, the selected tools one at a time in selection order, the merge of
\* the documentation exactly once, the report. At no moment of any run has a tool's
\* step been taken before the template layer, or the documentation been merged
\* before the step of the last tool.
C15_StepsInOrder ==
    /\ \A i \in ToolPositions : \E j \in 1..(i - 1) : createLog[j].step = "template"
    /\ \A i \in StepPositions("template") : \E j \in 1..(i - 1) : createLog[j].step = "common"
    /\ \A i \in StepPositions("synthesis") :
        /\ \A j \in ToolPositions : j < i
        /\ toolIndex = Len(tools) + 1
        /\ OneToolAtATime(SubSeq(createLog, 5, i - 1), tools)
    /\ createPc = "done" =>
        /\ Len(createLog) >= 6
        /\ createLog[1].step \in {"guard", "override"}
        /\ createLog[2].step = "resolve"
        /\ createLog[3].step = "common"
        /\ createLog[4].step = "template"
        /\ OneToolAtATime(SubSeq(createLog, 5, Len(createLog) - 2), tools)
        /\ \A i \in 5..(Len(createLog) - 2) : createLog[i].step \in ToolSteps
        /\ createLog[Len(createLog) - 1].step = "synthesis"
        /\ createLog[Len(createLog)].step = "report"

\* C15's case: a run with biome and then prettier ended well, and its steps were
\* guard, resolve, common, template, biome's copy, biome's rename, prettier's copy,
\* synthesis, report.
C15_Witness ==
    /\ createPc = "done"
    /\ tools = <<NmBiome, NmPrettier>>
    /\ [i \in 1..Len(createLog) |-> createLog[i].step] =
           <<"guard", "resolve", "common", "template", "builtin", "rename", "builtin",
             "synthesis", "report">>
    /\ createLog[5].tool = NmBiome
    /\ createLog[7].tool = NmPrettier

(***************************************************************************)
(* runCommand on its own                                                   *)
(***************************************************************************)

CommandHeads == {NpmCreate, <<"n", "p", "m", " ", "r", "u", "n", " ">>, <<"n", "p", "m", " ", "c", "r", "e", "a", "t", "e">>, <<"p", "n", "p", "m", " ", "c", "r", "e", "a", "t", "e", " ">>}

CommandParts == {<<"x">>, AtLatest, DoubleSeparator \o <<"d">>, <<" ", "-", "-", " ", "y">>}

MaxCommandParts == 3

RECURSIVE Concat(_)
Concat(parts) == IF parts = <<>> THEN <<>> ELSE Head(parts) \o Concat(Tail(parts))

\* A head followed by at most MaxCommandParts parts.
Commands ==
    {h \o Concat(t) : h \in CommandHeads,
                      t \in UNION {[1..n -> CommandParts] : n \in 0..MaxCommandParts}}

Managers == {NmNpm, NmPnpm, NmYarn, NmBun, NmDeno, NmCnpm}

\* npm_config_user_agent: unset, empty, a bare name, or name/version and more.
UserAgents ==
    {Undefined, [kind |-> "string", str |-> <<>>], [kind |-> "string", str |-> NmYarn]}
        \cup {[kind |-> "string", str |-> m \o <<"/", "1", " ", "n", "/", "2">>] : m \in Managers}

InitRun ==
    /\ userAgent \in UserAgents
    /\ runCommandArg \in Commands
    /\ spawned = Null
    /\ runPc = "ready"
    /\ AgentsIdle
    /\ ToolsIdle
    /\ PkgIdle
    /\ CreateIdle
    /\ FormatIdle
    /\ CopyIdle

\* runCommand(matchedTool.command, distFolder, packageManager), 418.
RunCommand ==
    /\ runPc = "ready"
    /\ spawned' = runCommand(runCommandArg, DistPath, PackageManagerOf(userAgent))
    /\ runPc' = "spawned"
    /\ UNCHANGED <<userAgent, runCommandArg, agentsVars, toolsVars, pkgVars, createVars,
                   formatVars, copyVars>>

NextRun == RunCommand

SpecRun == InitRun /\ [][NextRun]_vars

\* The command line that was executed: the program and its arguments.
Executed == Join(<<spawned.bin>> \o spawned.args, " ")

\* The manager named by the first word of the user agent, npm without one.
InvokingManager ==
    IF userAgent = Undefined \/ userAgent.str = <<>> THEN NmNpm
    ELSE CHOOSE m \in Managers :
            /\ IsPrefixAt(userAgent.str, m, 1)
            /\ Len(userAgent.str) > Len(m) => userAgent.str[Len(m) + 1] = "/"

\* The prefix that stands for 'npm create ' with a manager that has one.
PrefixFor(manager) ==
    CASE manager = NmPnpm -> <<"p", "n", "p", "m", " ", "c", "r", "e", "a", "t", "e", " ">>
      [] manager = NmYarn -> <<"y", "a", "r", "n", " ", "c", "r", "e", "a", "t", "e", " ">>
      [] manager = NmBun -> <<"b", "u", "n", " ", "c", "r", "e", "a", "t", "e", " ">>
      [] manager = NmDeno -> <<"d", "e", "n", "o", " ", "r", "u", "n", " ", "-", "A", " ", "n", "p", "m", ":", "c", "r", "e", "a", "t", "e", "-">>

Recognised == {NmPnpm, NmYarn, NmBun, NmDeno}

\* The command is rewritten: it begins with 'npm create ' and the manager has a
\* prefix of its own.
IsRewritten == StartsWith(runCommandArg, NpmCreate) /\ InvokingManager \in Recognised

\* after is before with its first occurrence of pat, if it has one, replaced by by.
FirstOccurrenceReplaced(after, before, pat, by) ==
    IF \E i \in 1..Len(before) : IsPrefixAt(before, pat, i)
    THEN \E i \in 1..Len(before) :
            /\ IsPrefixAt(before, pat, i)
            /\ \A j \in 1..(i - 1) : ~IsPrefixAt(before, pat, j)
            /\ after = SubSeq(before, 1, i - 1) \o by
                          \o SubSeq(before, i + Len(pat), Len(before))
    ELSE after = before

\* The declared command with the manager's prefix in place of 'npm create '.
Prefixed ==
    PrefixFor(InvokingManager)
        \o SubSeq(runCommandArg, Len(NpmCreate) + 1, Len(runCommandArg))

\* C17 as stated: when the command is rewritten, no ' -- --' is left in what is
\* executed, and with yarn no '@latest' is left.
C17_EverySeparatorAndTagStripped ==
    (runPc = "spawned" /\ IsRewritten) =>
        /\ ~Includes(Executed, DoubleSeparator)
        /\ InvokingManager = NmYarn => ~Includes(Executed, AtLatest)

\* C17: runCommand rewrites a command only when it begins with 'npm create ' and
\* the invoking manager is pnpm, yarn, bun or deno: the prefix becomes the
\* manager's, then the first ' -- --' becomes ' --', then, for yarn, the first
\* '@latest' is removed; later occurrences stay. For npm, for a manager without a
\* prefix of its own, and for a command that does not begin with 'npm create ', the
\* executed command is the declared one. It is executed in the given directory.
C17_RewritesNpmCreateOnly ==
    runPc = "spawned" =>
        /\ spawned.cwd = DistPath
        /\ ~IsRewritten => Executed = runCommandArg
        /\ IsRewritten =>
            \E mid \in {Prefixed}
                       \cup {SubSeq(Prefixed, 1, i - 1) \o SingleSeparator
                               \o SubSeq(Prefixed, i + Len(DoubleSeparator), Len(Prefixed)) :
                             i \in 1..Len(Prefixed)} :
                /\ FirstOccurrenceReplaced(mid, Prefixed, DoubleSeparator, SingleSeparator)
                /\ IF InvokingManager = NmYarn
                   THEN FirstOccurrenceReplaced(Executed, mid, AtLatest, <<>>)
                   ELSE Executed = mid

\* C17's case: 'npm create x@latest -- --d' under yarn was executed as
\* 'yarn create x --d'.
C17_Witness ==
    /\ runPc = "spawned"
    /\ runCommandArg = NpmCreate \o <<"x">> \o AtLatest \o DoubleSeparator \o <<"d">>
    /\ InvokingManager = NmYarn
    /\ spawned.bin = NmYarn
    /\ spawned.args = <<<<"c", "r", "e", "a", "t", "e">>, <<"x">>, <<"-", "-", "d">>>>

(***************************************************************************)
(* External tools                                                          *)
(***************************************************************************)

\* The calls that a list of selected tools asks for: for each one that matches an
\* external tool, its action when it has one, then its command when it has one.
RECURSIVE ExpectedCalls(_)
ExpectedCalls(selected) ==
    IF selected = <<>> THEN <<>>
    ELSE (IF IsExternal(Head(selected))
          THEN (IF MatchedTool(Head(selected)).action # "none"
                THEN <<[kind |-> "action", tool |-> Head(selected)]>> ELSE <<>>)
               \o (IF MatchedTool(Head(selected)).command # Null
                   THEN <<[kind |-> "command", tool |-> Head(selected)]>> ELSE <<>>)
          ELSE <<>>)
         \o ExpectedCalls(Tail(selected))

\* The calls made so far, as kind and tool.
CallsMade == [i \in 1..Len(toolCalls) |-> [kind |-> toolCalls[i].kind,
                                           tool |-> toolCalls[i].tool]]

\* The loop over the tools is over.
AfterTools == createPc \in {"report", "done"}

\* C16: for every selected tool that matches an external tool, create calls the
\* tool's action, when it has one, exactly once, with the resolved templateName,
\* the destination folder and the callback that registers a fragment directory, and
\* runs its command, when it has one, in the destination directory; both come after
\* the template layer, and nothing else happens while the action is awaited.
C16_ExternalToolsCalledOnceInOrder ==
    /\ Len(CallsMade) <= Len(ExpectedCalls(tools))
    /\ CallsMade = SubSeq(ExpectedCalls(tools), 1, Len(CallsMade))
    /\ AfterTools => CallsMade = ExpectedCalls(tools)
    /\ \A i \in 1..Len(toolCalls) :
        /\ toolCalls[i].at > 4
        /\ createLog[4].step = "template"
        /\ createLog[toolCalls[i].at].step = toolCalls[i].kind
        /\ createLog[toolCalls[i].at].tool = toolCalls[i].tool
        /\ toolCalls[i].kind = "action" =>
            /\ toolCalls[i].templateName = templateName
            /\ toolCalls[i].distFolder = DistPath
            /\ toolCalls[i].addAgentsMdSearchDirs = "agentsMdSearchDirs.push"
            /\ IF i = Len(toolCalls) /\ createPc = "await"
               THEN toolCalls[i].at = Len(createLog) /\ toolCalls[i].tool = tools[toolIndex]
               ELSE MatchedTool(toolCalls[i].tool).action = "register" =>
                        ExtraFolder \in Range(agentsMdSearchDirs)
        /\ toolCalls[i].kind = "command" =>
            /\ toolCalls[i].spawn.cwd = DistPath
            /\ Join(<<toolCalls[i].spawn.bin>> \o toolCalls[i].spawn.args, " ")
                   = MatchedTool(toolCalls[i].tool).command.str

\* C16's case: custom was selected twice, and the run ended with its action called
\* and its command run once for each, in turn.
C16_Witness ==
    /\ createPc = "done"
    /\ tools = <<NmCustom, NmCustom>>
    /\ [i \in 1..Len(toolCalls) |-> toolCalls[i].kind] =
           <<"action", "command", "action", "command">>
    /\ toolCalls[1].templateName = NmVanilla

(***************************************************************************)
(* A command that fails                                                    *)
(***************************************************************************)

\* The runs of create on the full template-common, with template-vanilla full or
\* missing, a destination that is absent or holds files, and an eslint mapping.
InitFair ==
    /\ Init
    /\ disk.root[1].children = CommonFull
    /\ Len(disk.root) = 2 => disk.root[2].children = TemplateFull /\ eslintMapping # Undefined
    /\ skipFiles = <<>>
    /\ distFolder \in {NoFolder, DestNonEmpty}

\* Where create stands: the statement it is at and the tool the loop is at.
createPosition == <<createPc, toolIndex>>

\* create has not returned, thrown or exited.
Running == createPc \in {"guard", "resolve", "check", "template", "tools", "await",
                         "rename", "report"}

\* create is one sequential function: each of its steps returns (spawn.sync is
\* synchronous, an awaited action settles), so as long as it is running it moves on.
\* create moves on: each step of Next goes to another statement or another tool.
CreateAdvances ==
    /\ Running
    /\ \E pc \in {"resolve", "check", "template", "tools", "await", "rename", "report",
                   "done", "failed", "exited"} :
        \E index \in 0..(Len(tools) + 1) :
            /\ createPc' = pc
            /\ toolIndex' = index

SpecFair == InitFair /\ [][Next]_vars /\ WF_createPosition(CreateAdvances)

\* Some external tool's command has ended with a non-zero status.
CommandFailed ==
    \E i \in 1..Len(toolCalls) : toolCalls[i].kind = "command" /\ toolCalls[i].status # 0

\* Every selected tool has had its step, the synthesis has run and the report is out.
EndedWell ==
    /\ createPc = "done"
    /\ toolIndex = Len(tools) + 1
    /\ StepPositions("synthesis") # {}
    /\ LastStep = "report"

\* C18: a non-zero exit status of an external tool's command does not stop the
\* run: after it the remaining tools are processed, the synthesis runs, the report
\* is emitted, and create ends without an error.
C18_FailedCommandDoesNotStopTheRun == CommandFailed ~> EndedWell

\* C18's case: custom's command failed, prettier was copied after it, and the run
\* ended with synthesis and report.
C18_Witness ==
    /\ EndedWell
    /\ tools = <<NmCustom, NmPrettier>>
    /\ toolCalls[2].kind = "command"
    /\ toolCalls[2].status = 1
    /\ createLog[7].step = "builtin"
    /\ createLog[7].tool = NmPrettier

(***************************************************************************)
(* Options in the recursion                                                *)
(***************************************************************************)

\* The package.json files the latest copy took from a sub-directory of its source.
NestedPackageJsons ==
    {q \in CopiedSourceFiles : Len(q) > 1 /\ q[Len(q)] = NmPackageJson}

\* C19: copyFolder recurses into a directory with the options it was called with: a
\* package.json in a sub-directory of an overlay applied with isMergePackageJson is
\* merged into the one the destination has at that path, so the keys that one had
\* are kept, and with a packageName the package.json of a sub-directory gets that
\* name as the one at the top does.
C19_RecursionKeepsOptions ==
    JustCopied =>
        \A q \in NestedPackageJsons :
            /\ (CopiedWithMerge /\ ExistsSync(destBefore, Landed(q))) =>
                \A f \in Range(SortedFields) :
                    FieldKeys(destBefore[Landed(q)].content.json, f)
                        \subseteq FieldKeys(distFolder[Landed(q)].content.json, f)
            /\ LastStep = "template" =>
                GetProp(distFolder[Landed(q)].content.json, "name") = packageName

\* What the recursion does with a nested package.json: the prettier folder was
\* copied with isMergePackageJson over a destination whose src/package.json had
\* the dependency a, and src/package.json now has prettier's keys only.
C19_NestedOverwritten ==
    /\ LastStep = "builtin"
    /\ <<NmSrc, NmPackageJson>> \in NestedPackageJsons
    /\ ExistsSync(destBefore, <<NmSrc, NmPackageJson>>)
    /\ FieldKeys(destBefore[<<NmSrc, NmPackageJson>>].content.json, "dependencies") = {KeyA}
    /\ FieldKeys(distFolder[<<NmSrc, NmPackageJson>>].content.json, "dependencies") = {}
    /\ FieldKeys(distFolder[<<NmSrc, NmPackageJson>>].content.json, "devDependencies") = {KeyB}

(***************************************************************************)
(* The sentinel after each layer                                           *)
(***************************************************************************)

\* Some string of a package.json holds 'workspace:*'.
ContainsSentinel(json) ==
    \E i \in 1..Len(json) :
        CASE json[i].kind = "string" -> Includes(json[i].str, WorkspaceSentinel)
          [] json[i].kind = "object" ->
                \E k \in 1..Len(json[i].obj) : Includes(json[i].obj[k].val, WorkspaceSentinel)
          [] json[i].kind = "array" ->
                \E k \in 1..Len(json[i].arr) : Includes(json[i].arr[k], WorkspaceSentinel)
          [] OTHER -> FALSE

\* The latest copy placed a package.json at the top of the destination.
PlacedRootPackageJson == JustCopied /\ <<NmPackageJson>> \in CopiedSourceFiles

\* The dependencies that are 'workspace:*' in the overlay's package.json.
SentinelKeys(json, field) ==
    {FieldKeySeq(json, field)[k] : k \in {n \in 1..Len(FieldKeySeq(json, field)) :
                                            GetProp(json, field).obj[n].val = WorkspaceSentinel}}

\* C20: with a single string for version, after every layer that places a
\* package.json at the top of the destination, by a copy or by a merge, that file
\* holds no 'workspace:*': each dependency that was the sentinel in the overlay or
\* in the merged-into file is now the version, with its caret when it is stable.
C20_NoSentinelAfterAnyLayer ==
    (PlacedRootPackageJson /\ createVersion.kind = "string") =>
        LET after == distFolder[<<NmPackageJson>>].content.json
            overlay == NodeAt(copyFrom, <<NmPackageJson>>).content.json
        IN  /\ ~ContainsSentinel(after)
            /\ \A f \in DependencyFields :
                \A key \in SentinelKeys(overlay, f) :
                    GetProp(GetProp(after, f).obj, key).val = ExpectedVersion(createVersion.str)

\* C20's case: prettier's package.json, whose devDependency b is 'workspace:*', was
\* merged into the destination's, and b is '^1.2.3' there.
C20_Witness ==
    /\ LastStep = "builtin"
    /\ PlacedRootPackageJson
    /\ WasMerged(<<NmPackageJson>>)
    /\ KeyB \in SentinelKeys(NodeAt(copyFrom, <<NmPackageJson>>).content.json,
                             "devDependencies")
    /\ GetProp(GetProp(distFolder[<<NmPackageJson>>].content.json, "devDependencies").obj,
               KeyB).val = <<"^">> \o Ver123

(***************************************************************************)
(* copyFolder on its own: placeholders                                     *)
(***************************************************************************)

KeyK == <<"k">>
KeyJ == <<"j">>

\* File names: markdown, extended markdown, and three that are neither.
CopyFileNames == {NmReadme, <<"a", ".", "m", "d", "x">>, NmIndexJs, <<"m", "d">>, <<"x", ".", "m", "d", ".", "j", "s">>}

\* Texts with one token, with the tokens of two keys, with a token twice, and with
\* braces that are no token.
CopyTexts ==
    {PlaceholderOf(KeyK) \o <<" ", "i">>,
     PlaceholderOf(KeyK) \o PlaceholderOf(KeyJ),
     PlaceholderOf(KeyK) \o <<" ">> \o PlaceholderOf(KeyK),
     <<"{", "{", "k", "}", "}", " ", "{", " ", "k", " ", "}">>}

\* A file at the top and a file below src, with the same text.
CopySources ==
    {<<FileNode(top, TextContent(t)), DirNode(NmSrc, <<FileNode(nested, TextContent(t))>>)>> :
        top \in CopyFileNames, nested \in CopyFileNames, t \in CopyTexts}

\* No mapping, a mapping of one key, a mapping of two.
CopyParameters ==
    {Undefined,
     [kind |-> "object", obj |-> <<[key |-> KeyK, val |-> <<"v">>]>>],
     [kind |-> "object", obj |-> <<[key |-> KeyK, val |-> <<"v">>],
                                   [key |-> KeyJ, val |-> <<"w", "w">>]>>]}

InitCopy ==
    /\ copySource \in CopySources
    /\ copyOptions \in {[version |-> Undefined,
                         packageName |-> Undefined,
                         templateParameters |-> tp,
                         isMergePackageJson |-> FALSE,
                         skipFiles |-> <<>>] : tp \in CopyParameters}
    /\ copyResult = NoFolder
    /\ copyPc = "ready"
    /\ AgentsIdle
    /\ ToolsIdle
    /\ PkgIdle
    /\ CreateIdle
    /\ FormatIdle
    /\ RunIdle

\* copyFolder({ from, to, templateParameters }), 563-629.
CopyFolder ==
    /\ copyPc = "ready"
    /\ copyResult' = copyFolder(copyResult, copySource, <<>>, copyOptions)
    /\ copyPc' = "copied"
    /\ UNCHANGED <<copySource, copyOptions, agentsVars, toolsVars, pkgVars, createVars,
                   formatVars, runVars>>

NextCopy == CopyFolder

SpecCopy == InitCopy /\ [][NextCopy]_vars

\* The pieces of text between the occurrences of a token, from left to right.
RECURSIVE PiecesBetween(_, _, _)
PiecesBetween(text, token, piece) ==
    IF text = <<>> THEN <<piece>>
    ELSE IF Len(token) <= Len(text) /\ SubSeq(text, 1, Len(token)) = token
    THEN <<piece>> \o PiecesBetween(SubSeq(text, Len(token) + 1, Len(text)), token, <<>>)
    ELSE PiecesBetween(Tail(text), token, Append(piece, Head(text)))

\* The pieces put together again with a value between them.
RECURSIVE Glued(_, _)
Glued(pieces, value) ==
    IF Len(pieces) = 1 THEN pieces[1]
    ELSE pieces[1] \o value \o Glued(Tail(pieces), value)

\* text with every token '{{ key }}' of every key of entries, in turn, turned into
\* the key's value.
RECURSIVE Substituted(_, _)
Substituted(text, entries) ==
    IF entries = <<>> THEN text
    ELSE Substituted(Glued(PiecesBetween(text, <<"{", "{", " ">> \o Head(entries).key
                                                   \o <<" ", "}", "}">>, <<>>),
                           Head(entries).val),
                     Tail(entries))

\* The name ends in .md or .mdx.
HasMarkdownName(name) ==
    \/ Len(name) >= 3 /\ SubSeq(name, Len(name) - 2, Len(name)) = <<".", "m", "d">>
    \/ Len(name) >= 4 /\ SubSeq(name, Len(name) - 3, Len(name)) = <<".", "m", "d", "x">>

\* The files of the source of the call, as paths.
CopySourceFiles == {q \in SourcePaths(copySource) : ~NodeAt(copySource, q).isDir}

\* C21: copyFolder substitutes placeholders only in files whose name ends in .md or
\* .mdx, and only when a mapping is supplied: such a file then holds its source
\* text with every '{{ key }}' token of every key of the mapping replaced by the
\* key's value, and every other copied file holds exactly its source's content.
C21_PlaceholdersOnlyInMarkdown ==
    copyPc = "copied" =>
        \A q \in CopySourceFiles :
            LET before == NodeAt(copySource, q).content
                after == copyResult[q].content
            IN  IF copyOptions.templateParameters # Undefined /\ HasMarkdownName(q[Len(q)])
                THEN /\ after.text = Substituted(before.text,
                                                 copyOptions.templateParameters.obj)
                     /\ \A i \in 1..Len(copyOptions.templateParameters.obj) :
                         ~Includes(after.text,
                                   <<"{", "{", " ">>
                                       \o copyOptions.templateParameters.obj[i].key
                                       \o <<" ", "}", "}">>)
                ELSE after = before

\* C21's case: with the mapping {k: v, j: ww}, README.md with '{{ k }}{{ j }}' was
\* copied as 'vww', and src/index.js with the same text was copied as it is.
C21_Witness ==
    /\ copyPc = "copied"
    /\ copyOptions.templateParameters # Undefined
    /\ Len(copyOptions.templateParameters.obj) = 2
    /\ <<NmReadme>> \in CopySourceFiles
    /\ <<NmSrc, NmIndexJs>> \in CopySourceFiles
    /\ NodeAt(copySource, <<NmReadme>>).content.text = PlaceholderOf(KeyK) \o PlaceholderOf(KeyJ)
    /\ copyResult[<<NmReadme>>].content.text = <<"v", "w", "w">>
    /\ copyResult[<<NmSrc, NmIndexJs>>].content.text = PlaceholderOf(KeyK) \o PlaceholderOf(KeyJ)

(***************************************************************************)
(* The sections of one fragment                                            *)
(***************************************************************************)

\* One fragment was merged: the sections are those of its parse.
OneFragment == agentsPc = "merged" /\ Len(agentsFiles) = 1

FragLines == Split(agentsFiles[1], "\n")

\* The number of '#' a line starts with, up to 3.
Depth(line) ==
    IF Len(line) >= 1 /\ line[1] = "#"
    THEN IF Len(line) >= 2 /\ line[2] = "#"
         THEN IF Len(line) >= 3 /\ line[3] = "#" THEN 3 ELSE 2
         ELSE 1
    ELSE 0

\* A heading line of depth 1 or 2: one or two '#', white space, a title.
IsSectionHeading(line) ==
    /\ Depth(line) \in {1, 2}
    /\ Len(line) >= Depth(line) + 2
    /\ line[Depth(line) + 1] \in {" ", "\t"}

HeadingTitle(line) == Trim(SubSeq(line, Depth(line) + 1, Len(line)))

HeadingKey(line) ==
    <<IF Depth(line) = 1 THEN "1" ELSE "2", "-">> \o ToLowerCase(HeadingTitle(line))

HeadingPositions == {i \in 1..Len(FragLines) : IsSectionHeading(FragLines[i])}

\* The positions of the headings of a key.
PositionsOf(key) == {i \in HeadingPositions : HeadingKey(FragLines[i]) = key}

\* The line of the next heading of depth 1 or 2 after line i, or the end.
NextHeading(i) ==
    IF \E j \in HeadingPositions : j > i
    THEN CHOOSE j \in HeadingPositions : j > i /\ \A k \in HeadingPositions : k > i => j <= k
    ELSE Len(FragLines) + 1

\* The trimmed text between the heading at line i and the next one.
BodyAfter(i) == Trim(Join(SubSeq(FragLines, i + 1, NextHeading(i) - 1), "\n"))

\* What a body is listed as: itself, or nothing when it is empty.
Listed(body) == IF body = <<>> THEN <<>> ELSE <<body>>

SectionOfKey(key) == allSections[IndexOfKey(allSections, key)]

\* C22: parseAgentsContent opens a section only at a heading line of depth 1 or 2:
\* the keys are those of these lines, a heading of depth 3 or more makes no key and
\* stays, as it is and where it is, in the body of the open section, and the body
\* of a section is the trimmed text between its heading and the next heading of
\* depth 1 or 2.
C22_SectionsOnlyAtDepthOneOrTwo ==
    OneFragment =>
        /\ {allSections[k].key : k \in 1..Len(allSections)}
               = {HeadingKey(FragLines[i]) : i \in HeadingPositions}
        /\ \A k \in 1..Len(allSections) : allSections[k].level \in {1, 2}
        /\ \A i \in HeadingPositions :
            PositionsOf(HeadingKey(FragLines[i])) = {i} =>
                /\ SectionOfKey(HeadingKey(FragLines[i])).level = Depth(FragLines[i])
                /\ SectionOfKey(HeadingKey(FragLines[i])).title = HeadingTitle(FragLines[i])
                /\ SectionOfKey(HeadingKey(FragLines[i])).contents = Listed(BodyAfter(i))
                /\ \A j \in (i + 1)..(NextHeading(i) - 1) :
                    Depth(FragLines[j]) = 3 =>
                        \E at \in 1..Len(BodyAfter(i)) :
                            /\ IsPrefixAt(BodyAfter(i), FragLines[j], at)
                            /\ at > 1 => BodyAfter(i)[at - 1] = "\n"

\* C22's case: '## T', a blank line, '### S', 'X', a blank line, 'Y', a blank line
\* gave one section, 2-t, whose body starts with the line '### S'.
C22_Witness ==
    /\ OneFragment
    /\ agentsFiles[1] = Join(<<LnH2T, LnBlank, LnH3S, LnX, LnBlank, LnY, LnBlank>>, "\n")
    /\ Len(allSections) = 1
    /\ allSections[1].contents = <<Join(<<LnH3S, LnX, LnBlank, LnY>>, "\n")>>

\* C23: when the same key, the same depth and the same title but for its case,
\* appears twice in one fragment, there is one section for it, with the title and
\* the body of the later occurrence; the body of the earlier one is not listed.
C23_LaterOccurrenceWins ==
    OneFragment =>
        \A i \in HeadingPositions :
            \A last \in PositionsOf(HeadingKey(FragLines[i])) :
                (i < last /\ \A k \in PositionsOf(HeadingKey(FragLines[i])) : k <= last) =>
                    /\ Cardinality({k \in 1..Len(allSections) :
                                      allSections[k].key = HeadingKey(FragLines[i])}) = 1
                    /\ SectionOfKey(HeadingKey(FragLines[i])).title
                           = HeadingTitle(FragLines[last])
                    /\ SectionOfKey(HeadingKey(FragLines[i])).contents
                           = Listed(BodyAfter(last))
                    /\ BodyAfter(i) # BodyAfter(last) =>
                        BodyAfter(i) \notin Range(SectionOfKey(HeadingKey(FragLines[i])).contents)

\* C23's case: '## T' with body Y, then '# A', then '## t' with body X: the section
\* 2-t comes first, is titled 't' and lists X only.
C23_Witness ==
    /\ OneFragment
    /\ agentsFiles[1] = Join(<<LnH2T, LnY, LnH1A, LnH2t, LnX>>, "\n")
    /\ Len(allSections) = 2
    /\ allSections[1].title = <<"t">>
    /\ allSections[1].contents = <<LnX>>
    /\ ~Includes(mergedAgents, LnY)

(***************************************************************************)
(* The order of the fragments                                              *)
(***************************************************************************)

\* The roots one tool touches: the folder an external tool's action registers, the
\* eslint folder and then its variant, a built-in tool's folder.
RootsOfTool(tool) ==
    IF IsExternal(tool)
    THEN IF MatchedTool(tool).action = "register" THEN <<ExtraFolder>> ELSE <<>>
    ELSE IF tool = NmEslint
         THEN IF eslintMapping = Null THEN <<>>
              ELSE <<Folder("packageRoot", <<TemplatePrefix \o NmEslint>>),
                     Folder("packageRoot",
                            <<TemplatePrefix \o NmEslint,
                              IF eslintMapping = Undefined THEN NmVanillaTs
                              ELSE eslintMapping.str>>)>>
         ELSE <<Folder("packageRoot", <<TemplatePrefix \o tool>>)>>

RECURSIVE RootsOfTools(_)
RootsOfTools(list) ==
    IF list = <<>> THEN <<>> ELSE RootsOfTool(Head(list)) \o RootsOfTools(Tail(list))

\* The roots in order: common, template, then those of the tools as selected.
RootsInOrder ==
    <<Folder("root", <<TemplatePrefix \o NmCommon>>),
      Folder("root", <<TemplatePrefix \o templateName>>)>> \o RootsOfTools(tools)

HasFragment(root) ==
    readAgentsFile(disk, root) # Null /\ readAgentsFile(disk, root).str # <<>>

RootsWithFragment == SelectSeq(RootsInOrder, HasFragment)

\* C24: the list of fragments handed to the merge holds, in this order, the
\* fragment of the common root, of the template root, and of each root a tool
\* touched, tool by tool as they were processed (for eslint its folder, then the
\* variant's; for an external tool the folder its action registered); a root
\* without a fragment has no entry and the others keep their order.
C24_FragmentsInRootOrder ==
    Synthesized =>
        /\ Len(agentsFiles) = Len(RootsWithFragment)
        /\ \A i \in 1..Len(RootsWithFragment) :
            agentsFiles[i] = readAgentsFile(disk, RootsWithFragment[i]).str

\* C24's case: eslint with the react-ts variant, which has no fragment, and then
\* the external tool that registers a folder: four fragments of five roots.
C24_Witness ==
    /\ Synthesized
    /\ tools = <<NmEslint, NmCustom>>
    /\ Len(RootsInOrder) = 5
    /\ agentsFiles = <<FragCommon, FragTemplate, FragEslint, FragExtra>>

(***************************************************************************)
(* The guard and the check of the template folder                          *)
(***************************************************************************)

\* The positions of the log at which create threw.
Throws == {i \in 1..Len(createLog) : createLog[i].step = "throw"}

\* C25 as stated: on a run whose template folder is missing, the caller is never
\* asked to choose between overriding and aborting.
C25_MissingTemplateNeverAsks ==
    (createPc # "idle" /\ TemplateMissing) => ~Asked

\* C25: the guard on the destination comes before the check of the template
\* folder. On a run whose template folder is missing create throws as its third
\* step, after the guard and after the template and the tools were resolved; the
\* caller was asked before that exactly when the destination held something other
\* than a lone '.git' and override was not given; and a run the caller aborted
\* ends without the check.
C25_GuardBeforeTemplateCheck ==
    (createPc # "idle" /\ TemplateMissing) =>
        /\ \A i \in Throws :
            /\ i = 3
            /\ createLog[1].step = IF GuardCondition THEN "override" ELSE "guard"
            /\ createLog[2].step = "resolve"
        /\ Failed => Throws = {3}
        /\ createPc = "exited" => (GuardCondition /\ Throws = {})

\* C25's case: the template folder is missing, the destination held files, the
\* caller was asked and chose to go on, and then create threw.
C25_Witness ==
    /\ TemplateMissing
    /\ destAtStart = DestNonEmpty
    /\ ~override
    /\ Failed
    /\ createLog[1].step = "override"
    /\ createLog[3].step = "throw"

(***************************************************************************)
(* The tools that reach the loop                                           *)
(***************************************************************************)

\* The names a tool may have: a built-in one, or the id of an external tool.
ValidToolNames ==
    {NmBiome, NmEslint, NmPrettier} \cup {extraTools[i].value : i \in 1..Len(extraTools)}

IsValidToolName(tool) == tool \in ValidToolNames

\* The folders of the built-in tools' overlays.
BuiltinOverlays ==
    {TemplatePrefix \o NmBiome, TemplatePrefix \o NmEslint, TemplatePrefix \o NmPrettier}

\* The tools were resolved from a --tools option.
ResolvedFromOption == toolsPc = "resolved" /\ toolsOption # Undefined

\* C26: when the tools come from a --tools option, the resolved list is the list of
\* the option's names that are a built-in name or the id of an external tool, in
\* order; the other names are dropped, so the list may be empty; no question was
\* asked; every step of the loop is taken for a name of that kind, and every
\* overlay folder of the search list is that of a built-in tool.
C26_OnlyKnownToolsReachTheLoop ==
    ResolvedFromOption =>
        /\ tools = SelectSeq(parseToolsOption(toolsOption).value, IsValidToolName)
        /\ ~toolsPrompted
        /\ \A i \in 1..Len(createLog) :
            createLog[i].tool # <<>> => createLog[i].tool \in ValidToolNames
        /\ \A i \in 1..Len(agentsMdSearchDirs) :
            agentsMdSearchDirs[i].base = "packageRoot" =>
                agentsMdSearchDirs[i].path[1] \in BuiltinOverlays

\* C26's case: --tools custom --tools biome without an external tool named custom:
\* the run ended, biome alone was processed, and no folder of custom was searched.
C26_Witness ==
    /\ ResolvedFromOption
    /\ createPc = "done"
    /\ toolsOption = [kind |-> "array", arr |-> <<NmCustom, NmBiome>>]
    /\ extraTools = <<>>
    /\ tools = <<NmBiome>>
    /\ \A i \in 1..Len(createLog) : createLog[i].tool \in {<<>>, NmBiome}
    /\ Len(agentsMdSearchDirs) = 3

(***************************************************************************)
(* The name of the destination's package.json                              *)
(***************************************************************************)

\* The template layer has been applied.
TemplateApplied == \E i \in 1..Len(createLog) : createLog[i].step = "template"

\* The fields called name of the package.json at the top of the destination.
RootNames ==
    LET json == distFolder[<<NmPackageJson>>].content.json
    IN  {json[k] : k \in {m \in 1..Len(json) : json[m].key = "name"}}

\* The tools whose layer has been applied and whose overlay names its package.
NamedLayersApplied ==
    {createLog[i].tool : i \in {k \in 1..Len(createLog) : createLog[k].step = "builtin"}}
        \cap {NmBiome}

\* C27: from the template layer on, a package.json at the top of the destination
\* has the resolved package name as its name after every step, whatever built-in
\* tools' layers were applied and whatever names their package.json carry.
C27_NameKeptAfterTemplate ==
    (TemplateApplied /\ ExistsSync(distFolder, <<NmPackageJson>>)) =>
        RootNames = {[kind |-> "string", key |-> "name", str |-> packageName.str]}

\* C27's case: the run ended after the layers of biome, whose package.json is
\* named 'tool', and of prettier, on a destination whose package.json was named
\* 'old', and the name is the resolved one.
C27_Witness ==
    /\ createPc = "done"
    /\ destAtStart = DestNonEmpty
    /\ tools = <<NmBiome, NmPrettier>>
    /\ NamedLayersApplied = {NmBiome}
    /\ ExistsSync(distFolder, <<NmPackageJson>>)
    /\ GetProp(distFolder[<<NmPackageJson>>].content.json, "name").str = NameProj

(***************************************************************************)
(* Merging what was merged                                                 *)
(***************************************************************************)

\* The merged text, merged again as the only fragment, is the merged text.
MergedAgainIsSame == mergeAgentsFiles(<<mergedAgents>>) = mergedAgents

\* The fragments followed by one of them again give the merged text.
RepetitionIsSame ==
    \A i \in 1..Len(agentsFiles) :
        mergeAgentsFiles(Append(agentsFiles, agentsFiles[i])) = mergedAgents

\* Every section has a title, and no body starts, once trimmed, with a line that
\* reads as a heading of depth 1 or 2.
ReadsBackAsWritten ==
    \A k \in 1..Len(allSections) :
        /\ allSections[k].title # <<>>
        /\ \A c \in 1..Len(allSections[k].contents) :
            ~IsSectionHeading(Split(allSections[k].contents[c], "\n")[1])

C28_UntitledSectionLost ==
    /\ agentsPc = "merged"
    /\ agentsFiles = <<Join(<<LnH1Untitled, LnX>>, "\n")>>
    /\ mergedAgents = Join(<<<<"#", " ">>, LnBlank, LnX>>, "\n")
    /\ mergeAgentsFiles(<<mergedAgents>>) = <<>>

(***************************************************************************)
(* The text before the first heading                                       *)
(***************************************************************************)

\* The lines of a fragment that are headings of depth 1 or 2.
HeadingsOf(fragment) ==
    {i \in 1..Len(Split(fragment, "\n")) : IsSectionHeading(Split(fragment, "\n")[i])}

\* A fragment from its first heading of depth 1 or 2 on; nothing when it has none.
WithoutPreface(fragment) ==
    IF HeadingsOf(fragment) = {} THEN <<>>
    ELSE LET first == CHOOSE i \in HeadingsOf(fragment) :
                          \A j \in HeadingsOf(fragment) : i <= j
         IN  Join(SubSeq(Split(fragment, "\n"), first, Len(Split(fragment, "\n"))), "\n")

\* No fragment has a heading of depth 1 or 2.
NoFragmentHasHeading == \A i \in 1..Len(agentsFiles) : HeadingsOf(agentsFiles[i]) = {}

\* C29: the merged text is what the fragments give without the text before their
\* first heading of depth 1 or 2, so that text is in no section and a fragment
\* without such a heading contributes nothing; when no fragment has one there is
\* no section and the merged text is empty; and create, having found fragments,
\* has written AGENTS.md all the same, which then holds a line break only.
C29_PrefaceDropped ==
    agentsPc = "merged" =>
        /\ mergedAgents
               = mergeAgentsFiles([i \in 1..Len(agentsFiles) |-> WithoutPreface(agentsFiles[i])])
        /\ NoFragmentHasHeading => (allSections = <<>> /\ mergedAgents = <<>>)
        /\ createPc # "idle" =>
            /\ agentsFiles # <<>>
            /\ agentsWritten
            /\ ExistsSync(distFolder, <<NmAgentsMd>>)
            /\ NoFragmentHasHeading =>
                distFolder[<<NmAgentsMd>>].content.text = <<"\n">>

\* C29's case: the only fragment found is '### S' and 'X', the merged text is
\* empty and the run ended with an AGENTS.md of one line break.
C29_Witness ==
    /\ createPc = "done"
    /\ agentsPc = "merged"
    /\ agentsFiles = <<FragHeadingless>>
    /\ mergedAgents = <<>>
    /\ agentsWritten
    /\ distFolder[<<NmAgentsMd>>].content.text = <<"\n">>

\* Text before the first heading is dropped: 'Y', '# A', 'X' is merged as '# A', 'X'.
C29_PrefaceCase ==
    /\ createPc = "done"
    /\ agentsFiles = <<FragPreface>>
    /\ mergedAgents = Join(<<LnH1A, LnBlank, LnX>>, "\n")

(***************************************************************************)
(* An external tool with the name of a built-in tool                       *)
(***************************************************************************)

\* The built-in names an external tool has taken.
TakenNames ==
    {NmBiome, NmEslint, NmPrettier} \cap {extraTools[i].value : i \in 1..Len(extraTools)}

\* The steps create takes for a built-in tool.
BuiltinSteps == {"builtin", "eslint", "eslintSkipped", "rename"}

\* The selected tools whose step has been taken.
ToolsDone == {tools[i] : i \in 1..(IF toolIndex > Len(tools) THEN Len(tools) ELSE toolIndex - 1)}

\* C30: for a selected tool that is external and has the name of a built-in tool,
\* create takes the external steps only: its action and its command are called,
\* no step of the built-in tool of that name is taken, the steps taken for it leave
\* the destination as it was, no folder of that built-in tool enters the search
\* list, and for biome no biome.json comes to be.
C30_ExternalToolTakesPrecedence ==
    createPc # "idle" =>
        \A t \in TakenNames :
            /\ \A i \in 1..Len(createLog) :
                createLog[i].tool = t => createLog[i].step \in {"action", "command"}
            /\ (LastStep \in {"action", "command"} /\ createLog[Len(createLog)].tool = t)
                   => distFolder = destBefore
            /\ \A i \in 1..Len(agentsMdSearchDirs) :
                agentsMdSearchDirs[i].base = "packageRoot"
                    => agentsMdSearchDirs[i].path[1] # TemplatePrefix \o t
            /\ t \in ToolsDone =>
                \E i \in 1..Len(toolCalls) : toolCalls[i].tool = t
            /\ (t = NmBiome /\ tools = <<NmBiome>>) =>
                /\ ~ExistsSync(distFolder, <<NmBiomeJson>>)
                /\ ~ExistsSync(distFolder, <<NmBiomeTemplate>>)

\* C30's case: an external tool named biome was selected, the run ended, its action
\* was called, the folder it registered is the third of the search list, and the
\* destination has neither biome.json nor biome.json.template.
C30_Witness ==
    /\ createPc = "done"
    /\ tools = <<NmBiome>>
    /\ TakenNames = {NmBiome}
    /\ Len(toolCalls) = 1
    /\ toolCalls[1].kind = "action"
    /\ agentsMdSearchDirs[3] = ExtraFolder
    /\ ~ExistsSync(distFolder, <<NmBiomeJson>>)

====
